---- MODULE Spec2Model ----
(***************************************************************************)
(* Pass-request workflow of the hostel pass portal: the remote document    *)
(* store (passRequests tree in its two layouts), the assignment resolver,  *)
(* the HOD and warden dashboards with their local request lists, the       *)
(* student subscription list and the expiry sweeps.                        *)
(*                                                                         *)
(* Time is counted in units of 24 hours (Day == 1).  Every comparison the  *)
(* code makes on timestamps is kept as written (strict >, <=).             *)
(***************************************************************************)
EXTENDS Integers, Sequences, FiniteSets, TLC

VARIABLES now, flat, nested, issued, mounted, local, studentReqs, lastOp,
          deleteId, clockMs, waits, recentSubmissions, lastAccepted, lastWritten,
          lastCall,
          wardens, hods, resolved,
          appOpen, sinceDelete, sinceCleanup,
          authUser, ssec_user, accounts, lastLogin,
          route, toast,
          passType, mode, currentStatus, parentNumber, smsToast,
          inFlight, tempSeq

\* the submissions of the student's dashboard that have not returned yet,
\* one per form, and the number of temporary ids handed out
flightVars == <<inFlight, tempSeq>>

\* the student's delete dialog and submissions
dialogVars == <<deleteId, flightVars>>

\* the milliseconds of the client's clock within the day now, the number of
\* waits, the client's map of recent submissions, the time of the last
\* accepted call and of the last call that wrote a request, for each
\* signature, and the last call of savePassRequest
submitVars == <<clockMs, waits, recentSubmissions, lastAccepted, lastWritten,
               lastCall>>

\* the warden and hod records of the store and the last call of a resolver
staffVars == <<wardens, hods>>
resolverVars == <<staffVars, resolved>>

\* whether AuthProvider is mounted, and the minutes since its two interval
\* timers were set or fired
timerVars == <<appOpen, sinceDelete, sinceCleanup>>

\* the user state of AuthProvider, the user persisted under ssec_user, the
\* students, hod and warden nodes of the store and the last call of login
\* the ApprovalWorkflow card: its props passType, currentStatus (the state
\* of its parent) and parentNumber, the mode of ModeProvider and the title
\* of the last toast of sendSMSToParent
workflowVars == <<passType, mode, currentStatus, parentNumber, smsToast>>

\* the path the router shows and the title of the toast on the screen
pageVars == <<route, toast, workflowVars>>

authVars == <<authUser, ssec_user, accounts, lastLogin, pageVars>>

auxVars == <<dialogVars, submitVars, resolverVars, timerVars, authVars>>

vars == <<now, flat, nested, issued, mounted, local, studentReqs, lastOp,
          auxVars>>

----------------------------------------------------------------------------
(* Bounds of the model *)

MaxTime == 4
MaxSubmitTime == 3

(* Program constants *)

Day == 1
ThreeDays == 3 * Day

----------------------------------------------------------------------------
(* Values *)

None == "none"
NoTime == 0 - 1
NoId == 0

Ids == {1, 2}
NumIds == Cardinality(Ids)
\* ids that may hold a record written before the per-requester layout
LegacyIds == {1}

Types == {"outing", "home_visit"}

\* emp codes of the students that submit requests
EmpCodes == {"E1", "E.2"}

\* emp_code.replace(/[.#$[\]]/g, '_')
Sanitize(e) == IF e = "E.2" THEN "E_2" ELSE e

\* the store rejects a path that contains one of . # $ [ ]
InvalidPathSegment(e) == e = "E.2"

\* per-requester containers, in key order
UserKeySeq == <<"E1", "E_2">>
UserKeys == {UserKeySeq[j] : j \in 1 .. Len(UserKeySeq)}

\* warden table in store iteration order, hod table by id
WardenTable == << [username |-> "wA", name |-> None, block |-> "A"],
                  [username |-> "wB", name |-> None, block |-> "B"],
                  [username |-> "wA2", name |-> "Warden A2", block |-> "A"] >>
HodIds == {"HOD006", "HOD002"}
HodTable == [h \in HodIds |->
                IF h = "HOD006"
                THEN [username |-> "hodA", name |-> None, department |-> "CSE"]
                ELSE [username |-> "hodB", name |-> "Hod B", department |-> None]]

\* what a submitted form carries: the logged-in username and the block and
\* department typed into the form ("Z" and "ECE" match no staff record)
Forms ==
    { [emp_code |-> "E1", block |-> "A", department |-> "cse"],
      [emp_code |-> "E.2", block |-> "A", department |-> "cse"],
      [emp_code |-> "E1", block |-> "Z", department |-> "ECE"] }

WardenUsers == {WardenTable[j].username : j \in 1 .. Len(WardenTable)}
HodUsers == {HodTable[h].username : h \in HodIds}

\* the students whose dashboard is open
StudentSessions == {"E1"}

\* dashboard sessions and the staff member logged in to each
HodSessions == {"h1", "h2"}
WardenSessions == {"w1"}
Sessions == HodSessions \cup WardenSessions
SessionUser(s) == IF s \in HodSessions THEN "hodA" ELSE "wA"


----------------------------------------------------------------------------
(* Store nodes.  A node that is not in the store has exists = FALSE; a     *)
(* field that is not in a node has the value None, NoTime or NoId.         *)
(* hasUsername says that the node has a key named username.                *)

Absent == [exists |-> FALSE, id |-> NoId, type |-> None, emp_code |-> "",
           status |-> None, createdAt |-> NoTime, grantedAt |-> NoTime,
           expiresAt |-> NoTime, assignedWarden |-> None,
           assignedHod |-> None, hodApprovedBy |-> None,
           wardenApprovedBy |-> None, hasUsername |-> FALSE]

\* an element of a fetched list that is not a request (a field value of a
\* flat record read as a container, or a container read as a record)
JunkItem == [Absent EXCEPT !.exists = TRUE]

EmptyFlat == [i \in Ids |-> Absent]
EmptyNested == [k \in UserKeys |-> [i \in Ids |-> Absent]]

\* records of the legacy flat layout; the layout test of the read paths and
\* sweeps takes a first value with a username key for such a record
LegacyRecord(i, ty) ==
    [Absent EXCEPT !.exists = TRUE, !.id = i, !.type = ty, !.emp_code = "E1",
                   !.status = "pending", !.createdAt = 0,
                   !.assignedWarden = "wA",
                   !.assignedHod = IF ty = "home_visit" THEN "hodA" ELSE None,
                   !.hasUsername = TRUE]

IsRequest(r) == r.exists /\ r.createdAt # NoTime

----------------------------------------------------------------------------
(* Assignment resolver *)

\* the value the resolvers return when they return null
NoStaff == [found |-> FALSE]

\* the for-in loop over the warden records: the first record of the block
RECURSIVE FirstWardenFrom(_, _, _)
FirstWardenFrom(table, j, block) ==
    IF j > Len(table) THEN NoStaff
    ELSE IF table[j].block = block
         THEN [found |-> TRUE, username |-> table[j].username,
               name |-> IF table[j].name # None THEN table[j].name
                                                ELSE table[j].username,
               block |-> table[j].block]
    ELSE FirstWardenFrom(table, j + 1, block)

\* mutant: the last record of the block
RECURSIVE LastWardenFrom(_, _, _)
LastWardenFrom(table, j, block) ==
    IF j < 1 THEN NoStaff
    ELSE IF table[j].block = block
         THEN [found |-> TRUE, username |-> table[j].username,
               name |-> IF table[j].name # None THEN table[j].name
                                                ELSE table[j].username,
               block |-> table[j].block]
    ELSE LastWardenFrom(table, j - 1, block)

\* mutant: the last warden of the block wins
AssignedWardenLast(table, block, readOk) ==
    IF ~ readOk THEN NoStaff
    ELSE IF Len(table) = 0 THEN NoStaff
    ELSE LastWardenFrom(table, Len(table), block)

\* getAssignedWardenByBlock on the warden records table; readOk is whether
\* the read of the warden node succeeds
AssignedWarden(table, block, readOk) ==
    IF ~ readOk THEN NoStaff
    ELSE IF Len(table) = 0 THEN NoStaff
    ELSE FirstWardenFrom(table, 1, block)

\* the username of the warden savePassRequest stores as assignedWarden
getAssignedWardenByBlock(block) ==
    LET w == AssignedWarden(wardens, block, TRUE)
    IN  IF w.found THEN w.username ELSE None

\* department.toUpperCase() on the departments of the model
toUpperCase(d) ==
    CASE d \in {"cse", "Cse"} -> "CSE"
      [] d = "it" -> "IT"
      [] d = "eee" -> "EEE"
      [] OTHER -> d

departmentToHodMapping(d) ==
    CASE d \in {"AIDS", "AIML", "CYBER SECURITY", "CSE", "IT"} -> "HOD006"
      [] d = "ECE" -> "HOD001"
      [] d = "CIVIL" -> "HOD003"
      [] d = "EEE" -> "HOD002"
      [] d = "MECH" -> "HOD004"
      [] OTHER -> None

\* mutant: the table is read without upper-casing the department
AssignedHodCaseSensitive(table, department, readOk) ==
    IF ~ readOk THEN NoStaff
    ELSE IF DOMAIN table = {} THEN NoStaff
    ELSE LET assignedHodId == departmentToHodMapping(department)
         IN  IF assignedHodId # None /\ assignedHodId \in DOMAIN table
             THEN LET hod == table[assignedHodId]
                  IN  [found |-> TRUE, username |-> hod.username,
                       name |-> IF hod.name # None THEN hod.name
                                                   ELSE hod.username,
                       department |-> IF hod.department # None
                                      THEN hod.department ELSE department]
             ELSE NoStaff

\* getAssignedHodByDepartment on the hod records table; readOk is whether
\* the read of the hod node succeeds
AssignedHod(table, department, readOk) ==
    IF ~ readOk THEN NoStaff
    ELSE IF DOMAIN table = {} THEN NoStaff
    ELSE LET assignedHodId == departmentToHodMapping(toUpperCase(department))
         IN  IF assignedHodId # None /\ assignedHodId \in DOMAIN table
             THEN LET hod == table[assignedHodId]
                  IN  [found |-> TRUE, username |-> hod.username,
                       name |-> IF hod.name # None THEN hod.name
                                                   ELSE hod.username,
                       department |-> IF hod.department # None
                                      THEN hod.department ELSE department]
             ELSE NoStaff

\* the username of the HOD savePassRequest stores as assignedHod
getAssignedHodByDepartment(department) ==
    LET h == AssignedHod(hods, department, TRUE)
    IN  IF h.found THEN h.username ELSE None

----------------------------------------------------------------------------
(* Expiry predicates *)

isOlderThan3Days(createdAt, t) ==
    IF createdAt = NoTime THEN FALSE ELSE t - createdAt > ThreeDays

\* mutant: a request expires a day later
isExpiredAfterFourDays(createdAt, t) ==
    IF createdAt = NoTime THEN TRUE ELSE t - createdAt > ThreeDays + Day

\* mutant: a request expires after one day
isExpiredAfterOneDay(createdAt, t) ==
    IF createdAt = NoTime THEN TRUE ELSE t - createdAt > Day

isExpired(createdAt, t) ==
    IF createdAt = NoTime THEN TRUE ELSE t - createdAt > ThreeDays

filterOutExpiredRequests(requests, t) ==
    SelectSeq(requests, LAMBDA r : ~ isExpired(r.createdAt, t))

\* the request-age label: isExpired of getTimeUntilExpiry(createdAt)
getTimeUntilExpiry(createdAt, t) ==
    IF createdAt = NoTime THEN [isExpired |-> TRUE]
    ELSE LET timeRemaining == createdAt + ThreeDays - t
         IN  [isExpired |-> timeRemaining <= 0]

\* mutant: the label turns expired only after expiresAt has passed
getTimeUntilPassExpiryStrict(expiresAt, t) ==
    IF expiresAt = NoTime THEN [isExpired |-> FALSE]
    ELSE [isExpired |-> expiresAt - t < 0]

\* the granted-pass label: isExpired of getTimeUntilPassExpiry(expiresAt)
getTimeUntilPassExpiry(expiresAt, t) ==
    IF expiresAt = NoTime THEN [isExpired |-> FALSE]
    ELSE LET timeRemaining == expiresAt - t
         IN  [isExpired |-> timeRemaining <= 0]

\* the label a dashboard row shows: the granted-pass label for a
\* warden_approved request with expiresAt, the request-age label otherwise
ExpiryLabel(r, t) ==
    IF r.status = "warden_approved" /\ r.expiresAt # NoTime
    THEN getTimeUntilPassExpiry(r.expiresAt, t)
    ELSE getTimeUntilExpiry(r.createdAt, t)

\* mutant: a request with nothing left counts as urgent
isExpiringWithin24HoursFromZero(createdAt, t) ==
    IF createdAt = NoTime THEN FALSE
    ELSE LET timeRemaining == createdAt + ThreeDays - t
         IN  timeRemaining >= 0 /\ timeRemaining <= Day

isExpiringWithin24Hours(createdAt, t) ==
    IF createdAt = NoTime THEN FALSE
    ELSE LET timeRemaining == createdAt + ThreeDays - t
             twentyFourHours == Day
         IN  timeRemaining > 0 /\ timeRemaining <= twentyFourHours

filterUrgentPasses(passes, t) ==
    SelectSeq(passes, LAMBDA pass : isExpiringWithin24Hours(pass.createdAt, t))

----------------------------------------------------------------------------
(* Top level of the passRequests tree.  Keys are read in key order; in the *)
(* model request ids and requester keys interleave: 1, E1, 2, E_2, 3, ...  *)

MaxRank == 2 * (IF NumIds > Len(UserKeySeq) THEN NumIds ELSE Len(UserKeySeq))

IsIdRank(p) == p % 2 = 1 /\ (p + 1) \div 2 \in Ids
IsUserRank(p) == p % 2 = 0 /\ p \div 2 \in 1 .. Len(UserKeySeq)
IdAt(p) == (p + 1) \div 2
UserAt(p) == UserKeySeq[p \div 2]

ContainerExists(n, k) == \E i \in Ids : n[k][i].exists

TopExists(f, n, p) ==
    \/ IsIdRank(p) /\ f[IdAt(p)].exists
    \/ IsUserRank(p) /\ ContainerExists(n, UserAt(p))

SnapshotExists(f, n) == \E p \in 1 .. MaxRank : TopExists(f, n, p)

FirstRank(f, n) ==
    CHOOSE p \in 1 .. MaxRank :
        TopExists(f, n, p) /\ \A q \in 1 .. (p - 1) : ~ TopExists(f, n, q)

\* firstValue && typeof firstValue === 'object' && !('username' in firstValue)
IsNewFormat(f, n) ==
    LET p == FirstRank(f, n)
    IN  IF IsIdRank(p) THEN ~ f[IdAt(p)].hasUsername ELSE TRUE

RECURSIVE ContainerValues(_, _, _)
ContainerValues(n, k, i) ==
    IF i > NumIds THEN << >>
    ELSE (IF n[k][i].exists THEN << n[k][i] >> ELSE << >>)
         \o ContainerValues(n, k, i + 1)

\* the elements pushed onto allRequests for the top-level key of rank p
ItemsAt(f, n, p, newFormat) ==
    IF ~ TopExists(f, n, p) THEN << >>
    ELSE IF newFormat
         THEN IF IsIdRank(p) THEN << JunkItem >>
                             ELSE ContainerValues(n, UserAt(p), 1)
         ELSE IF IsIdRank(p) THEN << f[IdAt(p)] >>
                             ELSE << JunkItem >>

RECURSIVE AllItemsFrom(_, _, _, _)
AllItemsFrom(f, n, p, newFormat) ==
    IF p > MaxRank THEN << >>
    ELSE ItemsAt(f, n, p, newFormat) \o AllItemsFrom(f, n, p + 1, newFormat)

fetchAllPassRequests(f, n, t) ==
    IF ~ SnapshotExists(f, n) THEN << >>
    ELSE filterOutExpiredRequests(AllItemsFrom(f, n, 1, IsNewFormat(f, n)), t)

RECURSIVE FlatValuesFor(_, _, _)
FlatValuesFor(f, e, i) ==
    IF i > NumIds THEN << >>
    ELSE (IF f[i].exists /\ f[i].emp_code = e THEN << f[i] >> ELSE << >>)
         \o FlatValuesFor(f, e, i + 1)

fetchUserPassRequests(f, n, e, t) ==
    IF InvalidPathSegment(e) THEN << >>
    ELSE IF e = ""
         THEN IF SnapshotExists(f, n)
              THEN filterOutExpiredRequests(AllItemsFrom(f, n, 1, FALSE), t)
              ELSE << >>
    ELSE IF e \in UserKeys /\ ContainerExists(n, e)
         THEN filterOutExpiredRequests(ContainerValues(n, e, 1), t)
         ELSE IF SnapshotExists(f, n)
              THEN filterOutExpiredRequests(FlatValuesFor(f, e, 1), t)
              ELSE << >>

SeqToSet(s) == {s[j] : j \in 1 .. Len(s)}

----------------------------------------------------------------------------
(* Expiry sweeps.  fail is the set of request ids whose remove() throws.   *)

\* mutant: the hard-delete sweep removes nothing
deleteExpiredNothing(f, n, t, fail) == [flat |-> f, nested |-> n]

\* mutant: the hard-delete sweep stops at the first remove that fails
deleteExpiredStopsAtFailure(f, n, t, fail) ==
    IF ~ SnapshotExists(f, n) THEN [flat |-> f, nested |-> n]
    ELSE IF IsNewFormat(f, n)
         THEN [flat |-> f,
               nested |-> [k \in UserKeys |-> [i \in Ids |->
                   IF /\ n[k][i].exists
                      /\ n[k][i].createdAt # NoTime
                      /\ isExpired(n[k][i].createdAt, t)
                      /\ fail = {}
                   THEN Absent ELSE n[k][i]]]]
         ELSE [flat |-> [i \in Ids |->
                   IF /\ f[i].exists
                      /\ f[i].createdAt # NoTime
                      /\ isExpired(f[i].createdAt, t)
                      /\ \A j \in fail : j > i
                   THEN Absent ELSE f[i]],
               nested |-> n]

deleteExpiredPassRequests(f, n, t, fail) ==
    IF ~ SnapshotExists(f, n) THEN [flat |-> f, nested |-> n]
    ELSE IF IsNewFormat(f, n)
         THEN [flat |-> f,
               nested |-> [k \in UserKeys |-> [i \in Ids |->
                   IF /\ n[k][i].exists
                      /\ n[k][i].createdAt # NoTime
                      /\ isExpired(n[k][i].createdAt, t)
                      /\ i \notin fail
                   THEN Absent ELSE n[k][i]]]]
         ELSE [flat |-> [i \in Ids |->
                   IF /\ f[i].exists
                      /\ f[i].createdAt # NoTime
                      /\ isExpired(f[i].createdAt, t)
                      /\ i \notin fail
                   THEN Absent ELSE f[i]],
               nested |-> n]

cleanupOldPassRequests(f, n, t, fail) ==
    IF ~ SnapshotExists(f, n) THEN [flat |-> f, nested |-> n]
    ELSE IF IsNewFormat(f, n)
         THEN [flat |-> f,
               nested |-> [k \in UserKeys |-> [i \in Ids |->
                   IF /\ n[k][i].exists
                      /\ n[k][i].createdAt # NoTime
                      /\ isOlderThan3Days(n[k][i].createdAt, t)
                      /\ i \notin fail
                   THEN Absent ELSE n[k][i]]]]
         ELSE [flat |-> [i \in Ids |->
                   IF /\ f[i].exists
                      /\ f[i].createdAt # NoTime
                      /\ isOlderThan3Days(f[i].createdAt, t)
                      /\ i \notin fail
                   THEN Absent ELSE f[i]],
               nested |-> n]

\* the two sweeps every dashboard runs before it loads
SweepBoth(f, n, t, fail1, fail2) ==
    LET s1 == deleteExpiredPassRequests(f, n, t, fail1)
    IN  cleanupOldPassRequests(s1.flat, s1.nested, t, fail2)

----------------------------------------------------------------------------
(* Submission *)

\* data.block as the submit handlers pass it on: StudentOutingForm has a
\* block field, StudentHomeVisitForm has none
FormBlock(ty, form) == IF ty = "outing" THEN form.block ELSE ""

NextPushId(used) == CHOOSE i \in Ids \ used : \A j \in Ids \ used : i <= j

\* the record savePassRequest writes under passRequests/{sanitized emp_code}
savePassRequest(i, ty, e, block, department, t) ==
    [Absent EXCEPT
        !.exists = TRUE, !.id = i, !.type = ty, !.emp_code = e,
        !.status = "pending", !.createdAt = t,
        !.assignedWarden = IF block # "" THEN getAssignedWardenByBlock(block)
                                         ELSE None,
        !.assignedHod = IF ty = "home_visit" /\ department # ""
                        THEN getAssignedHodByDepartment(department)
                        ELSE None]

IsTemp(r) == r.id < 0
TempId(list) == 0 - (1 + Cardinality({j \in 1 .. Len(list) : IsTemp(list[j])}))

\* the temporary request handleOutingSubmit / handleHomeVisitSubmit shows
TempRequest(list, ty, e, t) ==
    [Absent EXCEPT !.exists = TRUE, !.id = TempId(list), !.type = ty,
                   !.emp_code = e, !.status = "pending", !.createdAt = t]

----------------------------------------------------------------------------
(* Student subscription *)

\* Object.entries(data).map(([id, request]) => ({ id, ...request }))
EntryWithId(n, k, i) ==
    IF n[k][i].id # NoId THEN n[k][i] ELSE [n[k][i] EXCEPT !.id = i]

SnapshotEntrySet(n, k) == {EntryWithId(n, k, i) : i \in {j \in Ids : n[k][j].exists}}

\* sort by createdAt descending; the sort is stable and the entries come in
\* key order, so equal dates keep ascending keys
SortedDesc(s, S) ==
    /\ Len(s) = Cardinality(S)
    /\ SeqToSet(s) = S
    /\ \A a, b \in 1 .. Len(s) :
          a < b => \/ s[a].createdAt > s[b].createdAt
                   \/ s[a].createdAt = s[b].createdAt /\ s[a].id < s[b].id

Permutation(s, S) == Len(s) = Cardinality(S) /\ SeqToSet(s) = S

\* lists handleSnapshot can store: an entry without createdAt makes the
\* comparator return NaN, which leaves the order to the engine
SnapshotLists(n, k, t) ==
    LET S == SnapshotEntrySet(n, k)
        valid == {r \in S : ~ isExpired(r.createdAt, t)}
        cands == UNION {[1 .. m -> valid] : m \in {Cardinality(valid)}}
    IN  IF \E r \in S : r.createdAt = NoTime
        THEN {s \in cands : Permutation(s, valid)}
        ELSE {s \in cands : SortedDesc(s, valid)}

----------------------------------------------------------------------------
(* Dashboards: queue filters *)

\* mutant: the HOD dashboard keeps every fetched request
HodQueueFilterNone(r, user) == TRUE

\* HODDashboard.loadRequests, the filter on the fetched list
HodQueueFilter(r, user) ==
    /\ r.type = "home_visit"
    /\ r.assignedHod # None
    /\ r.assignedHod = user

HodLoadRequests(f, n, t, user) ==
    filterOutExpiredRequests(
        SelectSeq(fetchAllPassRequests(f, n, t),
                  LAMBDA r : HodQueueFilter(r, user)), t)

\* WardenDashboard.loadRequests, the type guard and the filter
WardenQueueFilter(r, user) ==
    /\ r.id # NoId /\ r.status # None
    /\ r.assignedWarden # None
    /\ r.assignedWarden = user

WardenLoadRequests(f, n, t, user) ==
    filterOutExpiredRequests(
        SelectSeq(fetchAllPassRequests(f, n, t),
                  LAMBDA r : WardenQueueFilter(r, user)), t)

\* the rows a dashboard shows Approve and Decline for
HodActionable(r) == r.status = "pending"

WardenActionable(r) ==
    \/ r.type = "outing" /\ r.status = "pending"
    \/ r.type = "home_visit" /\ r.status = "hod_approved"

\* allRequests.find(req => req.id === id); 0 when there is none
FindIndex(loc, id) ==
    IF \E j \in 1 .. Len(loc) : loc[j].id = id
    THEN CHOOSE j \in 1 .. Len(loc) :
            loc[j].id = id /\ \A q \in 1 .. (j - 1) : loc[q].id # id
    ELSE 0

Unchanged(f, n, loc) == [flat |-> f, nested |-> n, local |-> loc, ok |-> FALSE]

----------------------------------------------------------------------------
(* HOD dashboard *)

\* update(ref, updateData) with the HOD's updateData
HodWrite(node, status, user) ==
    [node EXCEPT !.exists = TRUE, !.status = status,
                 !.hodApprovedBy = IF status = "hod_approved" THEN user ELSE @]

HodLocal(loc, id, status, user) ==
    [j \in 1 .. Len(loc) |->
        IF loc[j].id = id
        THEN [loc[j] EXCEPT !.status = status,
                 !.hodApprovedBy = IF status = "hod_approved" THEN user
                                                               ELSE None]
        ELSE loc[j]]

HodUpdateRequestStatus(f, n, loc, user, id, status) ==
    LET j == FindIndex(loc, id)
    IN  IF j = 0 THEN Unchanged(f, n, loc)
        ELSE LET e == loc[j].emp_code
             IN  IF e # "" /\ InvalidPathSegment(e) THEN Unchanged(f, n, loc)
                 ELSE IF e # "" /\ n[e][id].exists
                 THEN [flat |-> f,
                       nested |-> [n EXCEPT ![e][id] = HodWrite(@, status, user)],
                       local |-> HodLocal(loc, id, status, user),
                       ok |-> TRUE]
                 ELSE LET f2 == [f EXCEPT ![id] = HodWrite(@, status, user)]
                      IN  [flat |-> f2,
                           nested |-> IF e # "" THEN [n EXCEPT ![e][id] = f2[id]]
                                                ELSE n,
                           local |-> HodLocal(loc, id, status, user),
                           ok |-> TRUE]

PendingIds(loc) == {loc[j].id : j \in {q \in 1 .. Len(loc) : loc[q].status = "pending"}}

\* the multi-path update of handleApproveAll / handleDeclineAll
HodHandleAll(f, n, loc, user, status) ==
    LET pend == PendingIds(loc)
    IN  [flat |-> [i \in Ids |-> IF i \in pend THEN HodWrite(f[i], status, user)
                                              ELSE f[i]],
         nested |-> n,
         local |-> [j \in 1 .. Len(loc) |->
                      IF loc[j].id \in pend
                      THEN IF status = "hod_approved"
                           THEN [loc[j] EXCEPT !.status = status,
                                               !.hodApprovedBy = user]
                           ELSE [loc[j] EXCEPT !.status = status]
                      ELSE loc[j]],
         ok |-> TRUE]

----------------------------------------------------------------------------
(* Warden dashboard *)

\* mutant: the pass expires at the moment it is granted
WardenWriteNoWindow(node, status, user, t) ==
    IF status = "warden_approved"
    THEN [node EXCEPT !.exists = TRUE, !.status = status,
                      !.wardenApprovedBy = user,
                      !.grantedAt = t, !.expiresAt = t]
    ELSE [node EXCEPT !.exists = TRUE, !.status = status]

\* update(ref, updateData) with the warden's updateData
WardenWrite(node, status, user, t) ==
    IF status = "warden_approved"
    THEN [node EXCEPT !.exists = TRUE, !.status = status,
                      !.wardenApprovedBy = user,
                      !.grantedAt = t, !.expiresAt = t + Day]
    ELSE [node EXCEPT !.exists = TRUE, !.status = status]

WardenLocal(loc, id, status, user, t) ==
    [j \in 1 .. Len(loc) |->
        IF loc[j].id = id
        THEN IF status = "warden_approved"
             THEN [loc[j] EXCEPT !.status = status, !.wardenApprovedBy = user,
                                 !.grantedAt = t, !.expiresAt = t + Day]
             ELSE [loc[j] EXCEPT !.status = status, !.wardenApprovedBy = None,
                                 !.grantedAt = NoTime, !.expiresAt = NoTime]
        ELSE loc[j]]

WardenUpdateRequestStatus(f, n, loc, user, id, status, t) ==
    LET j == FindIndex(loc, id)
    IN  IF j = 0 THEN Unchanged(f, n, loc)
        ELSE LET e == loc[j].emp_code
             IN  IF e # "" /\ InvalidPathSegment(e) THEN Unchanged(f, n, loc)
                 ELSE IF e # "" /\ n[e][id].exists
                 THEN [flat |-> f,
                       nested |-> [n EXCEPT ![e][id] =
                                      WardenWrite(@, status, user, t)],
                       local |-> WardenLocal(loc, id, status, user, t),
                       ok |-> TRUE]
                 ELSE [flat |-> [f EXCEPT ![id] = WardenWrite(@, status, user, t)],
                       nested |-> n,
                       local |-> WardenLocal(loc, id, status, user, t),
                       ok |-> TRUE]

\* the requests a bulk action of the given tab works on, in list order
WardenPending(loc, ty) ==
    SelectSeq(loc, LAMBDA r : r.type = ty /\ WardenActionable(r))

\* wardenApprovalData of handleApproveAll
WardenApproveAllWrite(node, user, t) ==
    [node EXCEPT !.exists = TRUE, !.status = "warden_approved",
                 !.wardenApprovedBy = user,
                 !.grantedAt = t, !.expiresAt = t + Day]

\* declineData of handleDeclineAll
WardenDeclineAllWrite(node) ==
    [node EXCEPT !.exists = TRUE, !.status = "declined"]

WardenBulkWrite(node, status, user, t) ==
    IF status = "warden_approved" THEN WardenApproveAllWrite(node, user, t)
                                  ELSE WardenDeclineAllWrite(node)

\* the for loop of handleApproveAll / handleDeclineAll from element j on;
\* a rejected path throws and ends the loop
RECURSIVE WardenBulkLoop(_, _, _, _, _, _, _)
WardenBulkLoop(f, n, reqs, j, status, user, t) ==
    IF j > Len(reqs) THEN [flat |-> f, nested |-> n, ok |-> TRUE]
    ELSE LET e == reqs[j].emp_code
             id == reqs[j].id
         IN  IF e # "" /\ InvalidPathSegment(e)
             THEN [flat |-> f, nested |-> n, ok |-> FALSE]
             ELSE IF e # "" /\ n[e][id].exists
             THEN WardenBulkLoop(f,
                      [n EXCEPT ![e][id] = WardenBulkWrite(@, status, user, t)],
                      reqs, j + 1, status, user, t)
             ELSE LET f2 == [f EXCEPT ![id] = WardenBulkWrite(@, status, user, t)]
                  IN  WardenBulkLoop(f2,
                          IF e # "" THEN [n EXCEPT ![e][id] = f2[id]] ELSE n,
                          reqs, j + 1, status, user, t)

WardenHandleAll(f, n, loc, user, ty, status, t) ==
    LET reqs == WardenPending(loc, ty)
        pend == {reqs[j].id : j \in 1 .. Len(reqs)}
        st == WardenBulkLoop(f, n, reqs, 1, status, user, t)
    IN  [flat |-> st.flat, nested |-> st.nested,
         local |-> IF ~ st.ok THEN loc
                   ELSE [j \in 1 .. Len(loc) |->
                           IF loc[j].id \in pend
                           THEN IF status = "warden_approved"
                                THEN [loc[j] EXCEPT !.status = status,
                                         !.wardenApprovedBy = user,
                                         !.grantedAt = t, !.expiresAt = t + Day]
                                ELSE [loc[j] EXCEPT !.status = status]
                           ELSE loc[j]],
         ok |-> st.ok]

----------------------------------------------------------------------------
(* State machine *)

\* ids of the stored requests a sweep at time t tries to remove
ExpiredIds(f, n, t) ==
    {i \in Ids : \/ f[i].exists /\ isExpired(f[i].createdAt, t)
                 \/ \E k \in UserKeys :
                       n[k][i].exists /\ isExpired(n[k][i].createdAt, t)}

NoCall == [signature |-> << >>, rejected |-> FALSE, key |-> NoId,
           requestData |-> << >>]

NoResolve == [fn |-> None, input |-> None, readOk |-> TRUE, out |-> NoStaff]

\* isSubmittingOuting / isSubmittingHomeVisit is false
NoFlight == [tempId |-> NoId, form |-> << >>, before |-> << >>]

\* nobody is logged in
NoUser == [username |-> None, role |-> None, department |-> None, block |-> None]

NoAccounts == [students |-> << >>, hod |-> << >>, warden |-> << >>]

NoLogin == [username |-> None, password |-> None, result |-> FALSE,
            read |-> NoAccounts]

\* no delete dialog is open, the client has submitted nothing and nobody is
\* logged in
ClientInit ==
    /\ deleteId = [e \in StudentSessions |-> NoId]
    /\ inFlight = [ty \in Types |-> NoFlight]
    /\ tempSeq = 0
    /\ clockMs = 0
    /\ waits = 0
    /\ recentSubmissions = [sig \in {} |-> NoTime]
    /\ lastAccepted = [sig \in {} |-> NoTime]
    /\ lastWritten = [sig \in {} |-> NoTime]
    /\ lastCall = NoCall
    /\ resolved = NoResolve
    /\ appOpen = FALSE
    /\ route = "/"
    /\ toast = None
    /\ passType = None
    /\ mode = "student"
    /\ currentStatus = None
    /\ parentNumber = FALSE
    /\ smsToast = None
    /\ sinceDelete = 0
    /\ sinceCleanup = 0
    /\ authUser = NoUser
    /\ ssec_user = NoUser
    /\ lastLogin = NoLogin

\* the staff records of the portal
AuxInit ==
    /\ ClientInit
    /\ wardens = WardenTable
    /\ hods = HodTable
    /\ accounts = NoAccounts

LegacyChoices(i) ==
    {Absent} \cup {LegacyRecord(i, ty) : ty \in Types}

InitStore ==
    /\ flat \in {f \in [Ids -> UNION {LegacyChoices(i) : i \in Ids}] :
                    /\ \A i \in Ids : f[i] \in LegacyChoices(i)
                    /\ \A i \in Ids \ LegacyIds : ~f[i].exists}
    /\ nested = EmptyNested
    /\ issued = {i \in Ids : flat[i].exists}
    /\ mounted = {}
    /\ local = [s \in Sessions |-> << >>]
    /\ lastOp = "other"
    /\ AuxInit

\* the approval workflow: no student dashboard is open
Init == now = ThreeDays /\ InitStore /\ studentReqs = [e \in {} |-> << >>]

\* the student side: the dashboards of StudentSessions are open
InitStudent == now = 0 /\ InitStore /\ studentReqs = [e \in StudentSessions |-> << >>]

\* the clock advances
Tick ==
    /\ now < MaxTime
    /\ now' = now + 1
    /\ lastOp' = "other"
    /\ UNCHANGED <<flat, nested, issued, mounted, local, studentReqs>>
    /\ UNCHANGED auxVars

\* StudentDashboard.handleOutingSubmit / handleHomeVisitSubmit; writeOk is
\* whether savePassRequest returns: it throws when the store refuses the
\* set() and when it takes the call for a duplicate (see SaveCall)
Submit(e, ty, block, department, writeOk) ==
    /\ issued # Ids
    /\ now <= MaxSubmitTime
    /\ LET i == NextPushId(issued)
           k == Sanitize(e)
       IN  /\ issued' = issued \cup {i}
           /\ IF writeOk
              THEN /\ nested' = [nested EXCEPT ![k][i] =
                          savePassRequest(i, ty, e, block, department, now)]
                   /\ studentReqs' = IF e \in DOMAIN studentReqs
                          THEN [studentReqs EXCEPT ![e] =
                                   << TempRequest(@, ty, e, now) >> \o @]
                          ELSE studentReqs
              ELSE UNCHANGED <<nested, studentReqs>>
           /\ lastOp' = "other"
    /\ UNCHANGED <<now, flat, mounted, local>>
    /\ UNCHANGED auxVars

\* StudentDashboard.handleSnapshot for the subscription of student e
HandleSnapshot(e) ==
    /\ e \in DOMAIN studentReqs
    /\ \E list \in SnapshotLists(nested, Sanitize(e), now) :
          studentReqs' = [studentReqs EXCEPT ![e] = list]
    /\ lastOp' = "other"
    /\ UNCHANGED <<now, flat, nested, issued, mounted, local>>
    /\ UNCHANGED auxVars

\* the timer and startup runs of the two sweeps in AuthProvider
SweepDelete(fail) ==
    /\ LET st == deleteExpiredPassRequests(flat, nested, now, fail)
       IN  flat' = st.flat /\ nested' = st.nested
    /\ lastOp' = "other"
    /\ UNCHANGED <<now, issued, mounted, local, studentReqs>>
    /\ UNCHANGED auxVars

SweepCleanup(fail) ==
    /\ LET st == cleanupOldPassRequests(flat, nested, now, fail)
       IN  flat' = st.flat /\ nested' = st.nested
    /\ lastOp' = "other"
    /\ UNCHANGED <<now, issued, mounted, local, studentReqs>>
    /\ UNCHANGED auxVars

\* sessions of the same staff member are interchangeable: they mount in the
\* order h1, h2 and w1, w2
MountsNext(s) ==
    /\ s = "h2" => "h1" \in mounted
    /\ s = "w2" => "w1" \in mounted

\* HODDashboard mount: both sweeps, then fetch and filter
HodLoad(s, fail1, fail2) ==
    /\ s \in HodSessions \ mounted
    /\ MountsNext(s)
    /\ mounted' = mounted \cup {s}
    /\ LET st == SweepBoth(flat, nested, now, fail1, fail2)
       IN  /\ flat' = st.flat
           /\ nested' = st.nested
           /\ local' = [local EXCEPT ![s] =
                 HodLoadRequests(st.flat, st.nested, now, SessionUser(s))]
    /\ lastOp' = "other"
    /\ UNCHANGED <<now, issued, studentReqs>>
    /\ UNCHANGED auxVars

\* WardenDashboard mount
WardenLoad(s, fail1, fail2) ==
    /\ s \in WardenSessions \ mounted
    /\ MountsNext(s)
    /\ mounted' = mounted \cup {s}
    /\ LET st == SweepBoth(flat, nested, now, fail1, fail2)
       IN  /\ flat' = st.flat
           /\ nested' = st.nested
           /\ local' = [local EXCEPT ![s] =
                 WardenLoadRequests(st.flat, st.nested, now, SessionUser(s))]
    /\ lastOp' = "other"
    /\ UNCHANGED <<now, issued, studentReqs>>
    /\ UNCHANGED auxVars

HodStep(s, id, status, kind) ==
    /\ s \in HodSessions
    /\ \E j \in 1 .. Len(local[s]) :
          local[s][j].id = id /\ HodActionable(local[s][j])
    /\ LET st == HodUpdateRequestStatus(flat, nested, local[s],
                                        SessionUser(s), id, status)
       IN  /\ flat' = st.flat
           /\ nested' = st.nested
           /\ local' = [local EXCEPT ![s] = st.local]
           /\ lastOp' = kind
    /\ UNCHANGED <<now, issued, mounted, studentReqs>>
    /\ UNCHANGED auxVars

\* HODDashboard.handleApprove / handleDecline on a row that shows the buttons
HodApprove(s, id) == HodStep(s, id, "hod_approved", "hodApprove")
HodDecline(s, id) == HodStep(s, id, "declined", "hodDecline")

HodAllStep(s, status, kind) ==
    /\ s \in HodSessions
    /\ PendingIds(local[s]) # {}
    /\ LET st == HodHandleAll(flat, nested, local[s], SessionUser(s), status)
       IN  /\ flat' = st.flat
           /\ nested' = st.nested
           /\ local' = [local EXCEPT ![s] = st.local]
           /\ lastOp' = kind
    /\ UNCHANGED <<now, issued, mounted, studentReqs>>
    /\ UNCHANGED auxVars

HodApproveAll(s) == HodAllStep(s, "hod_approved", "hodApproveAll")
HodDeclineAll(s) == HodAllStep(s, "declined", "hodDeclineAll")

WardenStep(s, id, status, kind) ==
    /\ s \in WardenSessions
    /\ \E j \in 1 .. Len(local[s]) :
          local[s][j].id = id /\ WardenActionable(local[s][j])
    /\ LET st == WardenUpdateRequestStatus(flat, nested, local[s],
                                           SessionUser(s), id, status, now)
       IN  /\ flat' = st.flat
           /\ nested' = st.nested
           /\ local' = [local EXCEPT ![s] = st.local]
           /\ lastOp' = kind
    /\ UNCHANGED <<now, issued, mounted, studentReqs>>
    /\ UNCHANGED auxVars

WardenApprove(s, id) == WardenStep(s, id, "warden_approved", "wardenApprove")
WardenDecline(s, id) == WardenStep(s, id, "declined", "wardenDecline")

WardenAllStep(s, ty, status, kind) ==
    /\ s \in WardenSessions
    /\ Len(WardenPending(local[s], ty)) > 0
    /\ LET st == WardenHandleAll(flat, nested, local[s], SessionUser(s),
                                 ty, status, now)
       IN  /\ flat' = st.flat
           /\ nested' = st.nested
           /\ local' = [local EXCEPT ![s] = st.local]
           /\ lastOp' = kind
    /\ UNCHANGED <<now, issued, mounted, studentReqs>>
    /\ UNCHANGED auxVars

WardenApproveAll(s, ty) ==
    WardenAllStep(s, ty, "warden_approved", "wardenApproveAll")
WardenDeclineAll(s, ty) == WardenAllStep(s, ty, "declined", "wardenDeclineAll")

StoreStep ==
    \/ Tick
    \/ \E form \in Forms, ty \in Types, ok \in BOOLEAN :
          Submit(form.emp_code, ty, FormBlock(ty, form), form.department, ok)
    \/ \E fail \in SUBSET ExpiredIds(flat, nested, now) : SweepDelete(fail)
    \/ \E fail \in SUBSET ExpiredIds(flat, nested, now) : SweepCleanup(fail)

Next ==
    \/ StoreStep
    \/ \E s \in HodSessions, fail1 \in SUBSET ExpiredIds(flat, nested, now) :
          \E fail2 \in SUBSET fail1 : HodLoad(s, fail1, fail2)
    \/ \E s \in WardenSessions, fail1 \in SUBSET ExpiredIds(flat, nested, now) :
          \E fail2 \in SUBSET fail1 : WardenLoad(s, fail1, fail2)
    \/ \E s \in HodSessions, id \in Ids : HodApprove(s, id)
    \/ \E s \in HodSessions, id \in Ids : HodDecline(s, id)
    \/ \E s \in HodSessions : HodApproveAll(s)
    \/ \E s \in HodSessions : HodDeclineAll(s)
    \/ \E s \in WardenSessions, id \in Ids : WardenApprove(s, id)
    \/ \E s \in WardenSessions, id \in Ids : WardenDecline(s, id)
    \/ \E s \in WardenSessions, ty \in Types : WardenApproveAll(s, ty)
    \/ \E s \in WardenSessions, ty \in Types : WardenDeclineAll(s, ty)

Spec == Init /\ [][Next]_vars

NextStudent ==
    \/ StoreStep
    \/ \E e \in StudentSessions : HandleSnapshot(e)

SpecStudent == InitStudent /\ [][NextStudent]_vars

----------------------------------------------------------------------------
(* Student delete *)

\* deletePassRequest(id, emp_code); removeOk is whether remove() succeeds.
\* The result is the store and the value returned.
deletePassRequest(f, n, id, e, removeOk) ==
    LET k == Sanitize(e)
    IN  IF e # "" /\ ContainerExists(n, k) /\ id \in Ids /\ n[k][id].exists
        THEN IF removeOk
             THEN [flat |-> f, nested |-> [n EXCEPT ![k][id] = Absent],
                   ok |-> TRUE]
             ELSE [flat |-> f, nested |-> n, ok |-> FALSE]
        ELSE IF removeOk
             THEN [flat |-> IF id \in Ids THEN [f EXCEPT ![id] = Absent] ELSE f,
                   nested |-> n, ok |-> TRUE]
             ELSE [flat |-> f, nested |-> n, ok |-> FALSE]

\* the row of the student's list whose delete dialog is open, 0 when the
\* dialog is not mounted (it is rendered only for a row with status pending)
DialogRow(e) ==
    IF \E j \in 1 .. Len(studentReqs[e]) :
          /\ studentReqs[e][j].id = deleteId[e]
          /\ studentReqs[e][j].status = "pending"
    THEN CHOOSE j \in 1 .. Len(studentReqs[e]) :
            /\ studentReqs[e][j].id = deleteId[e]
            /\ studentReqs[e][j].status = "pending"
    ELSE 0

\* the trash button of a pending row: setDeleteId(request.id)
OpenDelete(e, j) ==
    /\ e \in DOMAIN studentReqs
    /\ j \in 1 .. Len(studentReqs[e])
    /\ studentReqs[e][j].status = "pending"
    /\ deleteId[e] # studentReqs[e][j].id
    /\ deleteId' = [deleteId EXCEPT ![e] = studentReqs[e][j].id]
    /\ lastOp' = "other"
    /\ UNCHANGED <<now, flat, nested, issued, mounted, local, studentReqs>>
    /\ UNCHANGED <<flightVars, submitVars, resolverVars, timerVars, authVars>>

\* the Cancel button of the dialog
CancelDelete(e) ==
    /\ e \in DOMAIN studentReqs
    /\ deleteId[e] # NoId
    /\ DialogRow(e) # 0
    /\ deleteId' = [deleteId EXCEPT ![e] = NoId]
    /\ lastOp' = "other"
    /\ UNCHANGED <<now, flat, nested, issued, mounted, local, studentReqs>>
    /\ UNCHANGED <<flightVars, submitVars, resolverVars, timerVars, authVars>>

\* the Delete button of the dialog: handleDeleteRequest(deleteId)
ConfirmDelete(e, removeOk) ==
    /\ e \in DOMAIN studentReqs
    /\ deleteId[e] # NoId
    /\ DialogRow(e) # 0
    /\ LET id == deleteId[e]
           st == deletePassRequest(flat, nested, id, e, removeOk)
       IN  /\ flat' = st.flat
           /\ nested' = st.nested
           /\ studentReqs' =
                 IF st.ok
                 THEN [studentReqs EXCEPT ![e] =
                          SelectSeq(@, LAMBDA r : r.id # id)]
                 ELSE studentReqs
    /\ deleteId' = [deleteId EXCEPT ![e] = NoId]
    /\ lastOp' = "studentDelete"
    /\ UNCHANGED <<now, issued, mounted, local>>
    /\ UNCHANGED <<flightVars, submitVars, resolverVars, timerVars, authVars>>

\* a student's dashboard and a warden's dashboard on the same store
InitPass ==
    /\ now = MaxTime - 2
    /\ InitStore
    /\ studentReqs = [e \in StudentSessions |-> << >>]

NextPass ==
    \/ StoreStep
    \/ \E e \in StudentSessions : HandleSnapshot(e)
    \/ \E s \in WardenSessions, fail1 \in SUBSET ExpiredIds(flat, nested, now) :
          \E fail2 \in SUBSET fail1 : WardenLoad(s, fail1, fail2)
    \/ \E s \in WardenSessions, id \in Ids : WardenApprove(s, id)
    \/ \E s \in WardenSessions, id \in Ids : WardenDecline(s, id)
    \/ \E e \in StudentSessions, j \in 1 .. NumIds : OpenDelete(e, j)
    \/ \E e \in StudentSessions : CancelDelete(e)
    \/ \E e \in StudentSessions, removeOk \in BOOLEAN : ConfirmDelete(e, removeOk)

SpecPass == InitPass /\ [][NextPass]_vars

----------------------------------------------------------------------------
(* Submission from the student's dashboard, step by step *)

MaxStarts == 3

\* mutant: the temporary request stays in the list
KeepTemporary(list, tid) == list

\* setRequests(prev => prev.filter(req => req.id !== tempId))
RemoveTemporary(list, tid) == SelectSeq(list, LAMBDA req : req.id # tid)

\* handleOutingSubmit / handleHomeVisitSubmit up to the await: the form's
\* flag is set and the temporary request is put in front of the list.  The
\* temporary id is Date.now() of this instant, different from every other.
SubmitStart(e, ty, form) ==
    /\ e \in DOMAIN studentReqs
    /\ form.emp_code = e
    /\ inFlight[ty].tempId = NoId
    /\ tempSeq < MaxStarts
    /\ LET tid == 0 - (tempSeq + 1)
       IN  /\ studentReqs' = [studentReqs EXCEPT ![e] =
                 << [TempRequest(@, ty, e, now) EXCEPT !.id = tid] >> \o @]
           /\ inFlight' = [inFlight EXCEPT ![ty] =
                 [tempId |-> tid, form |-> form, before |-> studentReqs[e]]]
    /\ tempSeq' = tempSeq + 1
    /\ lastOp' = "other"
    /\ UNCHANGED <<now, flat, nested, issued, mounted, local>>
    /\ UNCHANGED <<deleteId, submitVars, resolverVars, timerVars, authVars>>

\* savePassRequest returns: the record is in the store
SubmitDone(e, ty) ==
    /\ e \in DOMAIN studentReqs
    /\ inFlight[ty].tempId # NoId
    /\ issued # Ids
    /\ LET i == NextPushId(issued)
           form == inFlight[ty].form
       IN  /\ issued' = issued \cup {i}
           /\ nested' = [nested EXCEPT ![Sanitize(e)][i] =
                 savePassRequest(i, ty, e, FormBlock(ty, form), form.department,
                                 now)]
    /\ inFlight' = [inFlight EXCEPT ![ty] = NoFlight]
    /\ lastOp' = "other"
    /\ UNCHANGED <<now, flat, mounted, local, studentReqs>>
    /\ UNCHANGED <<deleteId, tempSeq, submitVars, resolverVars, timerVars, authVars>>

\* savePassRequest throws (store error or duplicate): the catch block
SubmitFail(e, ty) ==
    /\ e \in DOMAIN studentReqs
    /\ inFlight[ty].tempId # NoId
    /\ studentReqs' = [studentReqs EXCEPT ![e] =
          RemoveTemporary(@, inFlight[ty].tempId)]
    /\ inFlight' = [inFlight EXCEPT ![ty] = NoFlight]
    /\ lastOp' = "submitFail"
    /\ UNCHANGED <<now, flat, nested, issued, mounted, local>>
    /\ UNCHANGED <<deleteId, tempSeq, submitVars, resolverVars, timerVars, authVars>>

NextOptimistic ==
    \/ \E e \in StudentSessions, ty \in Types, form \in Forms :
          SubmitStart(e, ty, form)
    \/ \E e \in StudentSessions, ty \in Types : SubmitDone(e, ty)
    \/ \E e \in StudentSessions, ty \in Types : SubmitFail(e, ty)
    \/ \E e \in StudentSessions : HandleSnapshot(e)

SpecOptimistic == InitStudent /\ [][NextOptimistic]_vars

----------------------------------------------------------------------------
(* Submission: the duplicate window of savePassRequest *)

DUPLICATE_PREVENTION_WINDOW == 5000
oneDayMs == 86400000
SignatureReasonLength == 50
MaxWaits == 2

\* Date.now() of the client
DateNow == now * oneDayMs + clockMs

\* reasons longer than the part the signature keeps: the first two differ
\* after that part only, the third differs inside it
LongReason(last) ==
    [j \in 1 .. SignatureReasonLength + 1 |->
        IF j = SignatureReasonLength + 1 THEN last ELSE "a"]

ReasonInside ==
    [j \in 1 .. SignatureReasonLength + 1 |->
        IF j = SignatureReasonLength THEN "z" ELSE "a"]

\* the request data the client passes to savePassRequest
SubmitCalls ==
    { [emp_code |-> "E.2", type |-> "outing", date |-> "d1",
       reason |-> LongReason("x"), block |-> "A", department |-> "cse"],
      [emp_code |-> "E_2", type |-> "outing", date |-> "d1",
       reason |-> LongReason("y"), block |-> "Z", department |-> "cse"],
      [emp_code |-> "E.2", type |-> "outing", date |-> "d1",
       reason |-> ReasonInside, block |-> "A", department |-> "cse"],
      [emp_code |-> "E.2", type |-> "home_visit", date |-> "d1",
       reason |-> <<"a">>, block |-> "", department |-> "ECE"] }

\* the statuses a caller may pass in the request data (None: no status)
CallerStatuses == {None, "warden_approved"}

\* reason.substring(0, 50)
substring(str, n) == SubSeq(str, 1, IF Len(str) < n THEN Len(str) ELSE n)

\* `${sanitizedEmpCode}-${type}-${date}-${reason.substring(0, 50)}`
requestSignature(requestData) ==
    <<Sanitize(requestData.emp_code), "-", requestData.type, "-",
      requestData.date, "-">>
        \o substring(requestData.reason, SignatureReasonLength)

\* what the signature is made of: the sanitized requester code, the type,
\* the date and the first 50 characters of the reason
SignatureFields(requestData) ==
    <<Sanitize(requestData.emp_code), requestData.type, requestData.date,
      substring(requestData.reason, SignatureReasonLength)>>

\* mutant: a call at the end of the window counts as a duplicate
IsDuplicateInclusive(m, sig, t) ==
    sig \in DOMAIN m /\ t - m[sig] <= DUPLICATE_PREVENTION_WINDOW

\* recentSubmissions.has(signature) && now - lastSubmission < WINDOW
IsDuplicate(m, sig, t) ==
    sig \in DOMAIN m /\ t - m[sig] < DUPLICATE_PREVENTION_WINDOW

\* recentSubmissions.set(signature, now)
MapSet(m, sig, t) ==
    [x \in DOMAIN m \cup {sig} |-> IF x = sig THEN t ELSE m[x]]

\* the loop that deletes the entries older than the window
CleanUp(m, t) ==
    [x \in {y \in DOMAIN m : ~ (t - m[y] > DUPLICATE_PREVENTION_WINDOW)} |-> m[x]]

\* mutant: the status of the request data is stored
requestWithIdKeepStatus(requestData, status, i, t) ==
    [savePassRequest(i, requestData.type, requestData.emp_code,
                     requestData.block, requestData.department, t)
        EXCEPT !.status = IF status = None THEN "pending" ELSE status]

\* { ...requestData, id, createdAt, status: "pending", assignedWarden,
\*   assignedHod }
requestWithId(requestData, status, i, t) ==
    LET spread == [Absent EXCEPT !.exists = TRUE,
                                 !.type = requestData.type,
                                 !.emp_code = requestData.emp_code,
                                 !.status = status]
        saved == savePassRequest(i, requestData.type, requestData.emp_code,
                                 requestData.block, requestData.department, t)
    IN  [spread EXCEPT !.id = saved.id, !.createdAt = saved.createdAt,
                       !.status = "pending",
                       !.assignedWarden = saved.assignedWarden,
                       !.assignedHod = saved.assignedHod]

\* the client's clock advances within the day
Wait(d) ==
    /\ waits < MaxWaits
    /\ waits' = waits + 1
    /\ clockMs' = clockMs + d
    /\ lastOp' = "other"
    /\ UNCHANGED <<now, flat, nested, issued, mounted, local, studentReqs>>
    /\ UNCHANGED <<dialogVars, recentSubmissions, lastAccepted, lastWritten,
                   lastCall>>
    /\ UNCHANGED <<resolverVars, timerVars, authVars>>

\* one call savePassRequest(requestData) with requestData.status = status;
\* writeOk is whether push and set succeed.  lastCall keeps the request
\* data, whether the call was rejected as a duplicate and the key returned.
SaveCall(requestData, status, writeOk) ==
    LET sig == requestSignature(requestData)
        fields == SignatureFields(requestData)
        t == DateNow
    IN  /\ requestData.emp_code # ""
        /\ IF IsDuplicate(recentSubmissions, sig, t)
           THEN /\ lastCall' = [signature |-> fields, rejected |-> TRUE,
                                key |-> NoId, requestData |-> requestData]
                /\ UNCHANGED <<nested, issued, recentSubmissions, lastAccepted,
                               lastWritten>>
           ELSE /\ lastCall' = [signature |-> fields, rejected |-> FALSE,
                                key |-> IF writeOk /\ issued # Ids
                                        THEN NextPushId(issued) ELSE NoId,
                                requestData |-> requestData]
                /\ recentSubmissions' = CleanUp(MapSet(recentSubmissions, sig, t), t)
                /\ lastAccepted' = MapSet(lastAccepted, fields, t)
                /\ lastWritten' = IF writeOk THEN MapSet(lastWritten, fields, t)
                                           ELSE lastWritten
                /\ IF writeOk
                   THEN /\ issued # Ids
                        /\ LET i == NextPushId(issued)
                           IN  /\ issued' = issued \cup {i}
                               /\ nested' =
                                     [nested EXCEPT
                                         ![Sanitize(requestData.emp_code)][i] =
                                            requestWithId(requestData, status,
                                                          i, now)]
                   ELSE UNCHANGED <<nested, issued>>
        /\ lastOp' = "save"
        /\ UNCHANGED <<now, flat, mounted, local, studentReqs>>
        /\ UNCHANGED <<dialogVars, clockMs, waits>>
        /\ UNCHANGED <<resolverVars, timerVars, authVars>>

InitSubmit ==
    /\ now \in {0, MaxSubmitTime}
    /\ InitStore
    /\ flat = EmptyFlat
    /\ studentReqs = [e \in {} |-> << >>]

NextSubmit ==
    \/ \E d \in {1, DUPLICATE_PREVENTION_WINDOW - 1} : Wait(d)
    \/ \E requestData \in SubmitCalls, status \in CallerStatuses,
          writeOk \in BOOLEAN : SaveCall(requestData, status, writeOk)

SpecSubmit == InitSubmit /\ [][NextSubmit]_vars

----------------------------------------------------------------------------
(* The resolvers on any staff records *)

MaxWardens == 3

\* warden records: two of block A, with and without a name, one of block B
WardenRecords ==
    { [username |-> "wA", name |-> None, block |-> "A"],
      [username |-> "wA2", name |-> "Warden A2", block |-> "A"],
      [username |-> "wB", name |-> None, block |-> "B"] }

\* the warden node in iteration order, from no record to MaxWardens records
WardenTables == UNION {[1 .. n -> WardenRecords] : n \in 0 .. MaxWardens}

HodRecord(h) ==
    CASE h = "HOD006" -> [username |-> "hodA", name |-> None,
                          department |-> "CSE"]
      [] h = "HOD002" -> [username |-> "hodB", name |-> "Hod B",
                          department |-> None]
      [] OTHER -> [username |-> "hodX", name |-> None, department |-> None]

\* the hod node: records under some of the ids, one of them an id the
\* static table does not name
HodTables ==
    {[h \in ids |-> HodRecord(h)] : ids \in SUBSET {"HOD006", "HOD002", "HOD9"}}

ResolverBlocks == {"A", "B", "a", "Z"}
ResolverDepartments == {"cse", "Cse", "IT", "it", "eee", "ECE", "physics"}

\* one call getAssignedWardenByBlock(block)
ResolveWarden(block, readOk) ==
    /\ resolved' = [fn |-> "warden", input |-> block, readOk |-> readOk,
                    out |-> AssignedWarden(wardens, block, readOk)]
    /\ lastOp' = "other"
    /\ UNCHANGED <<now, flat, nested, issued, mounted, local, studentReqs>>
    /\ UNCHANGED <<dialogVars, submitVars, staffVars, timerVars, authVars>>

\* one call getAssignedHodByDepartment(department)
ResolveHod(department, readOk) ==
    /\ resolved' = [fn |-> "hod", input |-> department, readOk |-> readOk,
                    out |-> AssignedHod(hods, department, readOk)]
    /\ lastOp' = "other"
    /\ UNCHANGED <<now, flat, nested, issued, mounted, local, studentReqs>>
    /\ UNCHANGED <<dialogVars, submitVars, staffVars, timerVars, authVars>>

InitResolver ==
    /\ now = 0
    /\ flat = EmptyFlat
    /\ nested = EmptyNested
    /\ issued = {}
    /\ mounted = {}
    /\ local = [s \in Sessions |-> << >>]
    /\ studentReqs = [e \in {} |-> << >>]
    /\ lastOp = "other"
    /\ ClientInit
    /\ wardens \in WardenTables
    /\ hods \in HodTables
    /\ accounts = NoAccounts

NextResolver ==
    \/ \E block \in ResolverBlocks, readOk \in BOOLEAN :
          ResolveWarden(block, readOk)
    \/ \E department \in ResolverDepartments, readOk \in BOOLEAN :
          ResolveHod(department, readOk)

SpecResolver == InitResolver /\ [][NextResolver]_vars

----------------------------------------------------------------------------
(* The sweep timers of AuthProvider *)

DeleteIntervalMinutes == 2
CleanupIntervalMinutes == 10

\* the store after two sweeps that read the same snapshot
MergeRemovals(a, b) ==
    [flat |-> [i \in Ids |-> IF a.flat[i].exists /\ b.flat[i].exists
                             THEN a.flat[i] ELSE Absent],
     nested |-> [k \in UserKeys |-> [i \in Ids |->
                    IF a.nested[k][i].exists /\ b.nested[k][i].exists
                    THEN a.nested[k][i] ELSE Absent]]]

\* AuthProvider mounts: the persisted user is restored, both sweeps are started without being awaited and
\* the two interval timers are set.  The general cleanup reads the store
\* before or after the removes of the hard-delete sweep.
AppMount(fail1, fail2, sameSnapshot) ==
    /\ ~ appOpen
    /\ appOpen' = TRUE
    /\ sinceDelete' = 0
    /\ sinceCleanup' = 0
    /\ LET d == deleteExpiredPassRequests(flat, nested, now, fail1)
           st == IF sameSnapshot
                 THEN MergeRemovals(d,
                         cleanupOldPassRequests(flat, nested, now, fail2))
                 ELSE cleanupOldPassRequests(d.flat, d.nested, now, fail2)
       IN  flat' = st.flat /\ nested' = st.nested
    /\ authUser' = ssec_user
    /\ lastOp' = "appMount"
    /\ UNCHANGED <<now, issued, mounted, local, studentReqs>>
    /\ UNCHANGED <<dialogVars, submitVars, resolverVars>>
    /\ UNCHANGED <<ssec_user, accounts, lastLogin, pageVars>>

\* AuthProvider unmounts: both timers are cleared; the state of the
\* component is gone (useState starts from null on the next mount), the
\* persisted user stays in localStorage
AppUnmount ==
    /\ appOpen
    /\ appOpen' = FALSE
    /\ sinceDelete' = 0
    /\ sinceCleanup' = 0
    /\ authUser' = NoUser
    /\ toast' = None
    /\ lastOp' = "other"
    /\ UNCHANGED <<now, flat, nested, issued, mounted, local, studentReqs>>
    /\ UNCHANGED <<dialogVars, submitVars, resolverVars>>
    /\ UNCHANGED <<ssec_user, accounts, lastLogin, route, workflowVars>>

\* a minute passes while the app is open; a timer that is due fires first
Minute ==
    /\ appOpen
    /\ sinceDelete < DeleteIntervalMinutes
    /\ sinceCleanup < CleanupIntervalMinutes
    /\ sinceDelete' = sinceDelete + 1
    /\ sinceCleanup' = sinceCleanup + 1
    /\ lastOp' = "other"
    /\ UNCHANGED <<now, flat, nested, issued, mounted, local, studentReqs>>
    /\ UNCHANGED authVars
    /\ UNCHANGED <<dialogVars, submitVars, resolverVars, appOpen>>

\* the 2 minute timer: deleteExpiredPassRequests
TimerDelete(fail) ==
    /\ appOpen
    /\ sinceDelete = DeleteIntervalMinutes
    /\ sinceDelete' = 0
    /\ LET st == deleteExpiredPassRequests(flat, nested, now, fail)
       IN  flat' = st.flat /\ nested' = st.nested
    /\ lastOp' = "timerDelete"
    /\ UNCHANGED <<now, issued, mounted, local, studentReqs>>
    /\ UNCHANGED authVars
    /\ UNCHANGED <<dialogVars, submitVars, resolverVars, appOpen, sinceCleanup>>

\* the 10 minute timer: cleanupOldPassRequests
TimerCleanup(fail) ==
    /\ appOpen
    /\ sinceCleanup = CleanupIntervalMinutes
    /\ sinceCleanup' = 0
    /\ LET st == cleanupOldPassRequests(flat, nested, now, fail)
       IN  flat' = st.flat /\ nested' = st.nested
    /\ lastOp' = "timerCleanup"
    /\ UNCHANGED <<now, issued, mounted, local, studentReqs>>
    /\ UNCHANGED authVars
    /\ UNCHANGED <<dialogVars, submitVars, resolverVars, appOpen, sinceDelete>>

\* a run of the 2 minute timer in which every remove succeeds
TimerDeleteDone == TimerDelete({})

InitTimers == now = 0 /\ InitStore /\ studentReqs = [e \in {} |-> << >>]

NextTimers ==
    \/ Tick
    \/ \E form \in Forms, ty \in Types, ok \in BOOLEAN :
          Submit(form.emp_code, ty, FormBlock(ty, form), form.department, ok)
    \/ \E fail1 \in SUBSET ExpiredIds(flat, nested, now) :
          \E fail2 \in SUBSET ExpiredIds(flat, nested, now), same \in BOOLEAN :
             AppMount(fail1, fail2, same)
    \/ AppUnmount
    \/ Minute
    \/ \E fail \in SUBSET ExpiredIds(flat, nested, now) : TimerDelete(fail)
    \/ \E fail \in SUBSET ExpiredIds(flat, nested, now) : TimerCleanup(fail)

\* the minutes pass, and the 2 minute timer keeps firing while the app is
\* open; of its runs, one in which no remove fails comes again and again
FairTimers ==
    /\ WF_vars(Minute)
    /\ WF_vars(\E fail \in SUBSET ExpiredIds(flat, nested, now) : TimerDelete(fail))
    /\ WF_vars(\E fail \in SUBSET ExpiredIds(flat, nested, now) : TimerCleanup(fail))
    /\ SF_vars(TimerDeleteDone)

SpecTimers == InitTimers /\ [][NextTimers]_vars /\ FairTimers

----------------------------------------------------------------------------
(* Login *)

MaxStudents == 1

\* a || b of JavaScript on values that are absent or strings
Or(a, b) == IF a # None /\ a # "" THEN a ELSE b

NoRecord == [id |-> None, emp_code |-> None, username |-> None,
             birthday |-> None, password |-> None, position |-> None,
             hostel_status |-> None,
             role |-> None, department |-> None, block |-> None]

\* a node of students/{department}
StudentNode(id, emp_code, birthday, password, position, role) ==
    [NoRecord EXCEPT !.id = id, !.emp_code = emp_code, !.birthday = birthday,
                     !.password = password, !.position = position,
                     !.role = role, !.department = "CSE", !.block = "A"]

StudentRecords ==
    { StudentNode("s1", "u1", "p1", None, "HOSTELLER", None),
      StudentNode("s3", "u1", "p1", None, "hosteller", None),
      StudentNode("s4", "u1", "p1", None, "DAYSCHOLAR", None),
      StudentNode("u2", None, None, "p2", None, None),
      StudentNode("s6", "u1", "p1", None, "HOSTELLER", "hod "),
      [StudentNode("s7", "u1", "p1", None, None, None)
          EXCEPT !.hostel_status = "DAYSCHOLAR"] }

RECURSIVE SeqsUpTo(_, _)
SeqsUpTo(S, n) ==
    IF n = 0 THEN { << >> }
    ELSE LET shorter == SeqsUpTo(S, n - 1)
         IN  shorter \cup {Append(q, x) : q \in shorter, x \in S}

StudentNodes == SeqsUpTo(StudentRecords, MaxStudents)

\* a node of hod/ or warden/
StaffNode(id, username, password, role, block) ==
    [NoRecord EXCEPT !.id = id, !.username = username, !.password = password,
                     !.role = role, !.block = block]

HodNodes ==
    { << >>,
      << StaffNode("CSE", "u1", "p1", "hod", None) >>,
      << StaffNode("CSE", "u1", "p1", "warden", None) >>,
      << StaffNode("CSE", "u1", "p1", "hod", None),
         StaffNode("IT", "u1", "p1", "hod", None) >> }

WardenNodes ==
    { << >>,
      << StaffNode("w1", "u1", "p1", "hod", "A"),
         StaffNode("w2", "u1", "p1", "warden", "B") >>,
      << StaffNode("w1", "u2", "p1", "warden", "B") >> }

LoginNames == {"u1", "u2"}
LoginPasswords == {"p1", "p2"}

\* the field mapping of fetchAllStudents
StudentData(r) ==
    [r EXCEPT !.emp_code = Or(r.emp_code, Or(r.username, r.id)),
              !.birthday = Or(r.birthday, r.password),
              !.position = Or(r.position, Or(r.hostel_status, "HOSTELLER")),
              !.block = Or(r.block, "")]

\* fetchAllStudents: a failed read is caught and gives the empty list
fetchAllStudents(node, readOk) ==
    IF readOk THEN [j \in 1 .. Len(node) |-> StudentData(node[j])] ELSE << >>

\* fetchAllHods: the key of the node is the department
fetchAllHods(node) ==
    [j \in 1 .. Len(node) |-> [node[j] EXCEPT !.department = node[j].id]]

fetchAllWardens(node) == node

\* mutant: the student test of login does not look at the position
MatchesAnyPosition(table, r, username, password) ==
    CASE table = "students" ->
            r.emp_code = username /\ r.birthday = password
      [] table = "hod" ->
            r.username = username /\ r.password = password /\ r.role = "hod"
      [] OTHER ->
            r.username = username /\ r.password = password /\ r.role = "warden"

\* the tests of the three find calls of login
Matches(table, r, username, password) ==
    CASE table = "students" ->
            /\ r.emp_code = username
            /\ r.birthday = password
            /\ (r.position \in {"HOSTELLER", "hosteller"} \/ r.position = None)
      [] table = "hod" ->
            r.username = username /\ r.password = password /\ r.role = "hod"
      [] OTHER ->
            r.username = username /\ r.password = password /\ r.role = "warden"

\* list.find(...): the first record that passes the test, NoRecord if none
FirstMatch(list, table, username, password) ==
    LET hits == {j \in 1 .. Len(list) :
                    Matches(table, list[j], username, password)}
    IN  IF hits = {} THEN NoRecord
        ELSE list[CHOOSE j \in hits : \A q \in hits : j <= q]

trim(x) == IF x = "hod " THEN "hod" ELSE x

\* the role login derives from the record it found
RoleOf(found) ==
    IF found.role = None THEN "student"
    ELSE IF trim(found.role) \in {"student", "warden", "hod"}
         THEN trim(found.role) ELSE "student"

userObj(found) ==
    [username |-> Or(found.emp_code, found.username),
     role |-> RoleOf(found),
     department |-> Or(found.department, ""),
     block |-> Or(found.block, "")]

LoginFailed == [result |-> FALSE, user |-> NoUser]
LoginAs(found) == [result |-> TRUE, user |-> userObj(found)]

\* the reads of one call of login, of which at most one fails
ReadFailures == {None, "students", "hod", "warden"}

\* mutant: the hod table is tried before the students table
loginHodFirst(username, password, acc, readFail) ==
    LET s == FirstMatch(fetchAllStudents(acc.students, readFail # "students"),
                        "students", username, password)
        h == FirstMatch(fetchAllHods(acc.hod), "hod", username, password)
        w == FirstMatch(fetchAllWardens(acc.warden), "warden", username, password)
    IN  IF readFail = "hod" THEN LoginFailed
        ELSE IF h # NoRecord THEN LoginAs(h)
        ELSE IF s # NoRecord THEN LoginAs(s)
        ELSE IF readFail = "warden" THEN LoginFailed
        ELSE IF w # NoRecord THEN LoginAs(w)
        ELSE LoginFailed

\* login(username, password): result is the value returned, user the object
\* built on success.  A read of hod/ or warden/ that fails throws into the
\* catch block.
login(username, password, acc, readFail) ==
    LET s == FirstMatch(fetchAllStudents(acc.students, readFail # "students"),
                        "students", username, password)
        h == FirstMatch(fetchAllHods(acc.hod), "hod", username, password)
        w == FirstMatch(fetchAllWardens(acc.warden), "warden", username, password)
    IN  IF s # NoRecord THEN LoginAs(s)
        ELSE IF readFail = "hod" THEN LoginFailed
        ELSE IF h # NoRecord THEN LoginAs(h)
        ELSE IF readFail = "warden" THEN LoginFailed
        ELSE IF w # NoRecord THEN LoginAs(w)
        ELSE LoginFailed

\* the tables as a call of login with the given failing read gets them
TablesRead(acc, readFail) ==
    [students |-> fetchAllStudents(acc.students, readFail # "students"),
     hod |-> IF readFail = "hod" THEN << >> ELSE fetchAllHods(acc.hod),
     warden |-> IF readFail = "warden" THEN << >>
                                       ELSE fetchAllWardens(acc.warden)]

\* one call of login from the login page
Login(username, password, readFail) ==
    /\ appOpen
    /\ LET out == login(username, password, accounts, readFail)
       IN  /\ authUser' = IF out.result THEN out.user ELSE authUser
           /\ ssec_user' = IF out.result THEN out.user ELSE ssec_user
           /\ lastLogin' = [username |-> username, password |-> password,
                            result |-> out.result,
                            read |-> TablesRead(accounts, readFail)]
    /\ lastOp' = "login"
    /\ UNCHANGED <<now, flat, nested, issued, mounted, local, studentReqs>>
    /\ UNCHANGED <<dialogVars, submitVars, resolverVars, timerVars, accounts>>
    /\ UNCHANGED pageVars

\* mutant: logout leaves the persisted user in localStorage
LogoutKeepsStored ==
    /\ appOpen
    /\ authUser' = NoUser
    /\ appOpen' = FALSE
    /\ sinceDelete' = 0
    /\ sinceCleanup' = 0
    /\ route' = "/"
    /\ toast' = None
    /\ lastOp' = "logout"
    /\ UNCHANGED workflowVars
    /\ UNCHANGED <<now, flat, nested, issued, mounted, local, studentReqs>>
    /\ UNCHANGED <<dialogVars, submitVars, resolverVars>>
    /\ UNCHANGED <<ssec_user, accounts, lastLogin>>

\* logout: the user is cleared in memory and in localStorage and the page
\* is loaded again at /, which unmounts AuthProvider
Logout ==
    /\ appOpen
    /\ authUser' = NoUser
    /\ ssec_user' = NoUser
    /\ appOpen' = FALSE
    /\ sinceDelete' = 0
    /\ sinceCleanup' = 0
    /\ route' = "/"
    /\ toast' = None
    /\ lastOp' = "logout"
    /\ UNCHANGED workflowVars
    /\ UNCHANGED <<now, flat, nested, issued, mounted, local, studentReqs>>
    /\ UNCHANGED <<dialogVars, submitVars, resolverVars, accounts, lastLogin>>

InitLogin ==
    /\ now = 0
    /\ flat = EmptyFlat
    /\ nested = EmptyNested
    /\ issued = {}
    /\ mounted = {}
    /\ local = [s \in Sessions |-> << >>]
    /\ studentReqs = [e \in {} |-> << >>]
    /\ lastOp = "other"
    /\ ClientInit
    /\ wardens = WardenTable
    /\ hods = HodTable
    /\ accounts \in [students : StudentNodes, hod : HodNodes, warden : WardenNodes]

NextLogin ==
    \/ \E same \in BOOLEAN : AppMount({}, {}, same)
    \/ AppUnmount
    \/ \E username \in LoginNames, password \in LoginPasswords,
          readFail \in ReadFailures : Login(username, password, readFail)
    \/ Logout

SpecLogin == InitLogin /\ [][NextLogin]_vars

\* LoginPage is on the screen: it is the element of the route / and what
\* Index, the element of /dashboard, returns while nobody is authenticated
LoginPageShown ==
    route = "/" \/ (route = "/dashboard" /\ authUser = NoUser)

\* the route the awaiting version navigates to: it reads the user of the
\* render in which the form was submitted
RouteOfRole(u) ==
    IF u.role = "student" THEN "/student-dashboard"
    ELSE IF u.role = "warden" THEN "/warden-dashboard"
    ELSE IF u.role = "hod" THEN "/hod-dashboard"
    ELSE "/dashboard"

\* what onSubmit tests after calling login: LoginPage.tsx tests the promise
\* that login returns, which is truthy; the awaiting version tests the
\* value the promise resolves to
SuccessSeen(awaits, result) == IF awaits THEN result ELSE TRUE

\* LoginPage.onSubmit, with the call of login it makes; awaits is whether
\* the page awaits login (FALSE for LoginPage.tsx)
LoginPageSubmit(awaits, username, password, readFail) ==
    /\ appOpen
    /\ LoginPageShown
    /\ LET out == login(username, password, accounts, readFail)
           success == SuccessSeen(awaits, out.result)
       IN  /\ authUser' = IF out.result THEN out.user ELSE authUser
           /\ ssec_user' = IF out.result THEN out.user ELSE ssec_user
           /\ lastLogin' = [username |-> username, password |-> password,
                            result |-> out.result,
                            read |-> TablesRead(accounts, readFail)]
           /\ toast' = IF success THEN "Login Successful" ELSE "Login Failed"
           /\ route' = IF ~ success THEN route
                       ELSE IF awaits THEN RouteOfRole(authUser)
                       ELSE "/dashboard"
    /\ lastOp' = IF awaits THEN "onSubmitAwaited" ELSE "onSubmit"
    /\ UNCHANGED workflowVars
    /\ UNCHANGED <<now, flat, nested, issued, mounted, local, studentReqs>>
    /\ UNCHANGED <<dialogVars, submitVars, resolverVars, timerVars, accounts>>

NextLoginPage ==
    \/ \E same \in BOOLEAN : AppMount({}, {}, same)
    \/ AppUnmount
    \/ \E awaits \in BOOLEAN, username \in LoginNames,
          password \in LoginPasswords, readFail \in ReadFailures :
             LoginPageSubmit(awaits, username, password, readFail)
    \/ Logout

SpecLoginPage == InitLogin /\ [][NextLoginPage]_vars

----------------------------------------------------------------------------
(* The ApprovalWorkflow card *)

UserModes == {"student", "warden", "hod"}

ApprovalStatuses == {"pending", "hod_approved", "warden_approved", "rejected"}

\* mutant: the buttons are offered to the warden for every pending pass
canApproveWardenPending(pt, m, st) ==
    IF pt = "outing"
    THEN m = "warden" /\ st = "pending"
    ELSE \/ m = "hod" /\ st = "pending"
         \/ m = "warden" /\ st \in {"pending", "hod_approved"}

canApprove(pt, m, st) ==
    IF pt = "outing"
    THEN m = "warden" /\ st = "pending"
    ELSE \/ m = "hod" /\ st = "pending"
         \/ m = "warden" /\ st = "hod_approved"

\* None is null
getNextAction(pt, m, st) ==
    IF pt = "outing" /\ m = "warden" /\ st = "pending"
    THEN "warden_approved"
    ELSE IF pt = "home_visit"
         THEN IF m = "hod" /\ st = "pending" THEN "hod_approved"
              ELSE IF m = "warden" /\ st = "hod_approved"
                   THEN "warden_approved"
                   ELSE None
         ELSE None

\* the toast sendSMSToParent leaves
SmsOutcome(hasNumber) == IF hasNumber THEN "SMS Sent" ELSE "No Parent Number"

\* the card is rendered with its props
WorkflowMount(pt, st, hasNumber) ==
    /\ passType = None
    /\ passType' = pt
    /\ currentStatus' = st
    /\ parentNumber' = hasNumber
    /\ lastOp' = "other"
    /\ UNCHANGED <<now, flat, nested, issued, mounted, local, studentReqs>>
    /\ UNCHANGED <<dialogVars, submitVars, resolverVars, timerVars>>
    /\ UNCHANGED <<authUser, ssec_user, accounts, lastLogin, route, toast>>
    /\ UNCHANGED <<mode, smsToast>>

\* the Select of the header sets the mode
SetMode(m) ==
    /\ mode' = m
    /\ lastOp' = "setMode"
    /\ UNCHANGED <<now, flat, nested, issued, mounted, local, studentReqs>>
    /\ UNCHANGED <<dialogVars, submitVars, resolverVars, timerVars>>
    /\ UNCHANGED <<authUser, ssec_user, accounts, lastLogin, route, toast>>
    /\ UNCHANGED <<passType, currentStatus, parentNumber, smsToast>>

\* handleApproval(newStatus): onStatusChange, the SMS for a pass that is
\* now warden_approved, then the toast
handleApproval(newStatus) ==
    /\ currentStatus' = newStatus
    /\ smsToast' = IF newStatus = "warden_approved"
                   THEN SmsOutcome(parentNumber) ELSE smsToast
    /\ toast' = "Status Updated"
    /\ UNCHANGED <<now, flat, nested, issued, mounted, local, studentReqs>>
    /\ UNCHANGED <<dialogVars, submitVars, resolverVars, timerVars>>
    /\ UNCHANGED <<authUser, ssec_user, accounts, lastLogin, route>>
    /\ UNCHANGED <<passType, mode, parentNumber>>

\* a click on Approve, which is rendered while canApprove()
WorkflowApprove ==
    /\ passType # None
    /\ canApprove(passType, mode, currentStatus)
    /\ handleApproval(getNextAction(passType, mode, currentStatus))
    /\ lastOp' = "cardApprove"

\* a click on Reject
WorkflowReject ==
    /\ passType # None
    /\ canApprove(passType, mode, currentStatus)
    /\ handleApproval("rejected")
    /\ lastOp' = "cardReject"

\* a click on Send SMS to Parent
WorkflowSendSMS ==
    /\ passType # None
    /\ currentStatus = "warden_approved" /\ parentNumber
    /\ smsToast' = SmsOutcome(parentNumber)
    /\ lastOp' = "other"
    /\ UNCHANGED <<now, flat, nested, issued, mounted, local, studentReqs>>
    /\ UNCHANGED <<dialogVars, submitVars, resolverVars, timerVars>>
    /\ UNCHANGED <<authUser, ssec_user, accounts, lastLogin, route, toast>>
    /\ UNCHANGED <<passType, mode, currentStatus, parentNumber>>

InitApprovalWorkflow ==
    /\ now = 0
    /\ flat = EmptyFlat
    /\ nested = EmptyNested
    /\ issued = {}
    /\ mounted = {}
    /\ local = [s \in Sessions |-> << >>]
    /\ studentReqs = [e \in {} |-> << >>]
    /\ lastOp = "other"
    /\ AuxInit

NextApprovalWorkflow ==
    \/ \E pt \in Types, st \in ApprovalStatuses, hasNumber \in BOOLEAN :
          WorkflowMount(pt, st, hasNumber)
    \/ \E m \in UserModes : SetMode(m)
    \/ WorkflowApprove
    \/ WorkflowReject
    \/ WorkflowSendSMS

SpecApprovalWorkflow == InitApprovalWorkflow /\ [][NextApprovalWorkflow]_vars

----------------------------------------------------------------------------
(* Properties of the approval workflow *)

\* the stored nodes before and after a step, as pairs <<old, new>>
IsDashboardOp(op) == op # "other"

Forward(ty, a, b) ==
    \/ a = "pending" /\ b = "hod_approved" /\ ty = "home_visit"
    \/ a = "hod_approved" /\ b = "warden_approved"
    \/ a = "pending" /\ b = "warden_approved" /\ ty = "outing"

StatusMoveOk(old, new) ==
    (IsRequest(old) /\ IsRequest(new) /\ old.status # new.status)
        => (Forward(old.type, old.status, new.status) \/ new.status = "declined")

\* C1: in every step the stored status of a request either stays, moves
\* forward along pending -> hod_approved -> warden_approved (pending ->
\* warden_approved for an outing) or becomes declined; it never goes back.
C1_StepOk ==
    /\ \A i \in Ids : StatusMoveOk(flat[i], flat'[i])
    /\ \A k \in UserKeys, i \in Ids : StatusMoveOk(nested[k][i], nested'[k][i])

C1_StatusOnlyMovesForward == [][C1_StepOk]_vars

TerminalKept(old, new) ==
    (IsRequest(old) /\ IsRequest(new)
        /\ old.status \in {"warden_approved", "declined"})
        => new.status = old.status

\* C2: warden_approved and declined are terminal: no approve or decline
\* action of any session, single or bulk, changes a stored status that is
\* warden_approved or declined.
C2_StepOk ==
    IsDashboardOp(lastOp') =>
        /\ \A i \in Ids : TerminalKept(flat[i], flat'[i])
        /\ \A k \in UserKeys, i \in Ids :
              TerminalKept(nested[k][i], nested'[k][i])

C2_TerminalStatusesStay == [][C2_StepOk]_vars

WardenApprovalFromHodApproved(old, new) ==
    (IsRequest(old) /\ IsRequest(new) /\ new.type = "home_visit"
        /\ new.status = "warden_approved" /\ old # new)
        => old.status = "hod_approved"

\* C3: every write of warden_approved to a stored home_visit request, by a
\* single warden approval or by Approve All, meets the stored status
\* hod_approved; in particular none meets pending.
C3_StepOk ==
    (lastOp' \in {"wardenApprove", "wardenApproveAll"}) =>
        /\ \A i \in Ids : WardenApprovalFromHodApproved(flat[i], flat'[i])
        /\ \A k \in UserKeys, i \in Ids :
              WardenApprovalFromHodApproved(nested[k][i], nested'[k][i])

C3_WardenApprovesHodApproved == [][C3_StepOk]_vars

\* the part of C3 about pending: no stored home_visit goes from pending to
\* warden_approved in one step
PendingToGranted(old, new) ==
    /\ IsRequest(old) /\ IsRequest(new) /\ new.type = "home_visit"
    /\ old.status = "pending" /\ new.status = "warden_approved"

NoHomeVisitSkipsHod ==
    [][/\ \A i \in Ids : ~ PendingToGranted(flat[i], flat'[i])
       /\ \A k \in UserKeys, i \in Ids :
             ~ PendingToGranted(nested[k][i], nested'[k][i])]_vars

\* every node of the passRequests tree that holds a record
StoredNodes(f, n) ==
    {f[i] : i \in {j \in Ids : f[j].exists}}
        \cup UNION {{n[k][i] : i \in {j \in Ids : n[k][j].exists}} : k \in UserKeys}

\* C4: no stored request of type outing has status hod_approved.
C4_OutingNeverHodApproved ==
    \A r \in StoredNodes(flat, nested) :
        ~ (r.type = "outing" /\ r.status = "hod_approved")

\* an outing is in the store when a HOD's Approve All has just run
C4_Witness ==
    /\ lastOp = "hodApproveAll"
    /\ \E r \in StoredNodes(flat, nested) : r.type = "outing"
    /\ \E r \in StoredNodes(flat, nested) :
          r.type = "home_visit" /\ r.status = "hod_approved"

\* the rows of the dashboard a staff member gets by loading now
HodOffersDecline(user, id) ==
    LET rows == HodLoadRequests(flat, nested, now, user)
    IN  \E j \in 1 .. Len(rows) : rows[j].id = id /\ HodActionable(rows[j])

WardenOffersDecline(user, id) ==
    LET rows == WardenLoadRequests(flat, nested, now, user)
    IN  \E j \in 1 .. Len(rows) : rows[j].id = id /\ WardenActionable(rows[j])

\* the requests savePassRequest stored, not yet past the 3 days
OpenSavedRequests ==
    {r \in StoredNodes(EmptyFlat, nested) :
        /\ IsRequest(r)
        /\ ~ (now - r.createdAt > ThreeDays)
        /\ r.status \in {"pending", "hod_approved"}}

\* C5: in a store that holds only the per-requester layout, every saved
\* request with status pending or hod_approved is offered for Decline on
\* the dashboard of some approver: a HOD for a pending home visit, a warden
\* for a pending outing and for a hod_approved home visit.
C5_DeclineAlwaysOffered ==
    (flat = EmptyFlat) =>
        \A r \in OpenSavedRequests :
            IF r.type = "home_visit" /\ r.status = "pending"
            THEN \E u \in HodUsers : HodOffersDecline(u, r.id)
            ELSE \E u \in WardenUsers : WardenOffersDecline(u, r.id)

StampedByApproval(old, new, t) ==
    (new.exists /\ old # new) =>
        /\ new.status = "warden_approved"
        /\ new.grantedAt = t
        /\ new.expiresAt = new.grantedAt + Day

StampsKeptByDecline(old, new) ==
    (old.exists /\ new.exists) =>
        /\ new.grantedAt = old.grantedAt
        /\ new.expiresAt = old.expiresAt

\* C6: every record a warden approval (single or Approve All) writes has
\* status warden_approved, grantedAt equal to the time of the approval and
\* expiresAt equal to grantedAt + 24 hours; a warden decline (single or
\* Decline All) changes neither grantedAt nor expiresAt of a stored record.
\* The clock reads of one handler are one instant of the model's clock.
C6_StepOk ==
    /\ (lastOp' \in {"wardenApprove", "wardenApproveAll"}) =>
          /\ \A i \in Ids : StampedByApproval(flat[i], flat'[i], now)
          /\ \A k \in UserKeys, i \in Ids :
                StampedByApproval(nested[k][i], nested'[k][i], now)
    /\ (lastOp' \in {"wardenDecline", "wardenDeclineAll"}) =>
          /\ \A i \in Ids : StampsKeptByDecline(flat[i], flat'[i])
          /\ \A k \in UserKeys, i \in Ids :
                StampsKeptByDecline(nested[k][i], nested'[k][i])

C6_WardenApprovalStamps == [][C6_StepOk]_vars

\* a warden approval has just stamped a stored request
C6_Witness ==
    /\ lastOp \in {"wardenApprove", "wardenApproveAll"}
    /\ \E r \in StoredNodes(flat, nested) :
          /\ IsRequest(r)
          /\ r.status = "warden_approved"
          /\ r.grantedAt = now
          /\ r.expiresAt = now + Day

----------------------------------------------------------------------------
(* Properties of the sweeps and the read paths *)

PastThreeDays(r, t) == t - r.createdAt > ThreeDays

\* C7: after deleteExpiredPassRequests has run at time now with every
\* remove succeeding, no request with now - createdAt > 3 days is left in
\* the store, in the flat layout, the per-requester layout or both.
C7_SweepLeavesNoExpired ==
    LET st == deleteExpiredPassRequests(flat, nested, now, {})
    IN  \A r \in StoredNodes(st.flat, st.nested) :
            IsRequest(r) => ~ PastThreeDays(r, now)

NoneExpiredIn(list, t) ==
    \A j \in 1 .. Len(list) : ~ PastThreeDays(list[j], t)

\* C8: the lists fetchAllPassRequests and fetchUserPassRequests return and
\* the lists the student subscription callback stores hold no request with
\* now - createdAt > 3 days at the time they are built, swept or not.
C8_ListsHoldNoExpired ==
    /\ NoneExpiredIn(fetchAllPassRequests(flat, nested, now), now)
    /\ \A e \in EmpCodes :
          NoneExpiredIn(fetchUserPassRequests(flat, nested, e, now), now)
    /\ \A k \in UserKeys : \A list \in SnapshotLists(nested, k, now) :
          NoneExpiredIn(list, now)

\* the store holds a request past the 3 days that no sweep has removed, and
\* the read paths and the subscription return lists that are not empty
C8_Witness ==
    /\ \E r \in StoredNodes(flat, nested) : IsRequest(r) /\ PastThreeDays(r, now)
    /\ Len(fetchAllPassRequests(flat, nested, now)) > 0
    /\ \E e \in EmpCodes : Len(fetchUserPassRequests(flat, nested, e, now)) > 0
    /\ \E k \in UserKeys : \E list \in SnapshotLists(nested, k, now) :
          Len(list) > 0

\* C9: fetchAllPassRequests returns every stored request that is not
\* expired, from the flat and from the per-requester layout, and
\* fetchUserPassRequests returns every such request of the requester.
C9_ReadPathsMergeLayouts ==
    \A r \in StoredNodes(flat, nested) :
        (IsRequest(r) /\ ~ PastThreeDays(r, now)) =>
            /\ r \in SeqToSet(fetchAllPassRequests(flat, nested, now))
            /\ r \in SeqToSet(fetchUserPassRequests(flat, nested,
                                                    r.emp_code, now))

----------------------------------------------------------------------------
(* Bulk actions against single actions *)

IdsOf(reqs) == [j \in 1 .. Len(reqs) |-> reqs[j].id]

\* the single HOD action applied to the requests ids[j], ids[j+1], ... in turn
RECURSIVE HodSinglesFrom(_, _, _, _, _)
HodSinglesFrom(st, user, ids, j, status) ==
    IF j > Len(ids) THEN st
    ELSE HodSinglesFrom(
             HodUpdateRequestStatus(st.flat, st.nested, st.local, user,
                                    ids[j], status),
             user, ids, j + 1, status)

\* the single warden action applied to the requests ids[j], ids[j+1], ...
RECURSIVE WardenSinglesFrom(_, _, _, _, _, _)
WardenSinglesFrom(st, user, ids, j, status, t) ==
    IF j > Len(ids) THEN st
    ELSE WardenSinglesFrom(
             WardenUpdateRequestStatus(st.flat, st.nested, st.local, user,
                                       ids[j], status, t),
             user, ids, j + 1, status, t)

\* two stores that the read path of the dashboards cannot tell apart
SameStoreAsRead(a, b, t) ==
    fetchAllPassRequests(a.flat, a.nested, t)
        = fetchAllPassRequests(b.flat, b.nested, t)

\* C10: a bulk action of a HOD or warden session leaves the store, as the
\* read path returns it, the same as the corresponding single action
\* applied to each request of the session's queue in the applicable state.
C10_BulkEqualsSingles ==
    /\ \A s \in HodSessions, status \in {"hod_approved", "declined"} :
          LET reqs == SelectSeq(local[s], HodActionable)
              start == [flat |-> flat, nested |-> nested,
                        local |-> local[s], ok |-> TRUE]
          IN  Len(reqs) > 0 =>
                 SameStoreAsRead(
                     HodHandleAll(flat, nested, local[s], SessionUser(s), status),
                     HodSinglesFrom(start, SessionUser(s), IdsOf(reqs), 1, status),
                     now)
    /\ \A s \in WardenSessions, ty \in Types,
          status \in {"warden_approved", "declined"} :
          LET reqs == WardenPending(local[s], ty)
              start == [flat |-> flat, nested |-> nested,
                        local |-> local[s], ok |-> TRUE]
          IN  Len(reqs) > 0 =>
                 SameStoreAsRead(
                     WardenHandleAll(flat, nested, local[s], SessionUser(s),
                                     ty, status, now),
                     WardenSinglesFrom(start, SessionUser(s), IdsOf(reqs), 1,
                                       status, now),
                     now)

----------------------------------------------------------------------------
(* Properties of deletion, expiry and submission *)

\* C11: a delete issued by the requester removes a request only if its
\* stored status is pending at the moment of removal, also when an approver
\* changed the status after the requester opened the dialog.
C11_DeleteOnlyPending ==
    [][lastOp' = "studentDelete" =>
          \A i \in Ids :
             /\ (flat[i].exists /\ ~flat'[i].exists)
                   => flat[i].status = "pending"
             /\ \A k \in UserKeys :
                   (nested[k][i].exists /\ ~nested'[k][i].exists)
                      => nested[k][i].status = "pending"]_vars

\* a granted pass whose 24 hours are over while the request is within its
\* 3 days
GrantedPastExpiresAt(r, t) ==
    /\ IsRequest(r)
    /\ r.status = "warden_approved"
    /\ r.expiresAt # NoTime
    /\ t > r.expiresAt
    /\ r.createdAt # NoTime
    /\ t - r.createdAt <= ThreeDays

\* C12 as stated: after the expiry sweep has run at time now with every
\* remove succeeding, no warden_approved request with now > expiresAt is
\* left in the store.
C12_SweepDeletesPastExpiresAt ==
    LET st == deleteExpiredPassRequests(flat, nested, now, {})
    IN  \A r \in StoredNodes(st.flat, st.nested) :
            ~ GrantedPastExpiresAt(r, now)

\* C12: neither sweep deletes by expiresAt: a warden_approved request with
\* now > expiresAt and now - createdAt at most 3 days is at the same path
\* with the same fields after deleteExpiredPassRequests and after
\* cleanupOldPassRequests, whichever removes fail.
C12_SweepKeepsGrantedWithinThreeDays ==
    \A fail \in SUBSET ExpiredIds(flat, nested, now) :
       LET d == deleteExpiredPassRequests(flat, nested, now, fail)
           c == cleanupOldPassRequests(flat, nested, now, fail)
       IN  \A i \in Ids :
              /\ GrantedPastExpiresAt(flat[i], now)
                    => d.flat[i] = flat[i] /\ c.flat[i] = flat[i]
              /\ \A k \in UserKeys :
                    GrantedPastExpiresAt(nested[k][i], now)
                       => /\ d.nested[k][i] = nested[k][i]
                          /\ c.nested[k][i] = nested[k][i]

\* the store holds a granted pass past its expiresAt and within its 3 days,
\* and the sweep at this instant leaves it there
C12_Witness ==
    LET d == deleteExpiredPassRequests(flat, nested, now, {})
    IN  \E r \in StoredNodes(flat, nested) :
           /\ GrantedPastExpiresAt(r, now)
           /\ r \in StoredNodes(d.flat, d.nested)

\* a stored request the dashboards label with the granted-pass label
GrantedWithExpiresAt(r) ==
    IsRequest(r) /\ r.status = "warden_approved" /\ r.expiresAt # NoTime

\* the read path keeps a request by its createdAt only
KeptByCreatedAtOnly(r, t) ==
    filterOutExpiredRequests(<<r>>, t)
        = IF r.createdAt # NoTime /\ t - r.createdAt <= ThreeDays
          THEN <<r>> ELSE << >>

PreviousAccepted(sig) ==
    IF sig \in DOMAIN lastAccepted THEN lastAccepted[sig] ELSE NoTime

C14_StepOk ==
    lastOp' = "save" =>
       LET previous == PreviousAccepted(lastCall'.signature)
       IN  /\ lastCall'.rejected
                <=> /\ previous # NoTime
                    /\ DateNow - previous < DUPLICATE_PREVENTION_WINDOW
           /\ lastCall'.rejected
                => /\ flat' = flat /\ nested' = nested
                   /\ recentSubmissions' = recentSubmissions
                   /\ lastAccepted' = lastAccepted

\* C14: a call of savePassRequest is rejected as a duplicate exactly when
\* the same client accepted a call with the same signature (sanitized
\* requester code, type, date, first 50 characters of the reason) less than
\* 5000 ms earlier; the rejected call writes nothing and does not extend
\* the window.  Accepted means: passed the duplicate test, whether or not
\* the write that follows succeeds.
C14_DuplicateWindow == [][C14_StepOk]_vars

\* a call has been rejected 4999 ms after the accepted call with the same
\* signature
C14_Witness ==
    /\ lastOp = "save"
    /\ lastCall.rejected
    /\ DateNow - lastAccepted[lastCall.signature]
          = DUPLICATE_PREVENTION_WINDOW - 1

\* a call has been accepted exactly 5000 ms after the accepted call with
\* the same signature
C14_WitnessAccepted ==
    /\ lastOp = "save"
    /\ ~ lastCall.rejected
    /\ clockMs = DUPLICATE_PREVENTION_WINDOW
    /\ lastAccepted[lastCall.signature] = DateNow
    /\ Cardinality({i \in Ids : nested["E_2"][i].exists}) = NumIds

\* the nodes of the per-requester layout that differ between two stores
ChangedNodes(n1, n2) ==
    {<<k, i>> \in UserKeys \X Ids : n1[k][i] # n2[k][i]}

NoWardenOfBlock(block) ==
    \A j \in 1 .. Len(wardens) : wardens[j].block # block

NoHodOfDepartment(department) ==
    \/ departmentToHodMapping(toUpperCase(department)) = None
    \/ departmentToHodMapping(toUpperCase(department)) \notin DOMAIN hods

C15_StepOk ==
    (lastOp' = "save" /\ lastCall'.key # NoId) =>
       LET data == lastCall'.requestData
           k == Sanitize(data.emp_code)
           i == lastCall'.key
           r == nested'[k][i]
       IN  /\ flat' = flat
           /\ ChangedNodes(nested, nested') = {<<k, i>>}
           /\ ~ nested[k][i].exists /\ ~ flat[i].exists /\ i \notin issued
           /\ r.exists /\ r.id = i
           /\ r.type = data.type /\ r.emp_code = data.emp_code
           /\ r.status = "pending"
           /\ r.createdAt = now
           /\ r.grantedAt = NoTime /\ r.expiresAt = NoTime
           /\ NoWardenOfBlock(data.block) => r.assignedWarden = None
           /\ (data.type # "home_visit" \/ NoHodOfDepartment(data.department))
                 => r.assignedHod = None

\* C15: every call of savePassRequest that returns stores exactly one new
\* record, under passRequests/{sanitized emp_code}/{new id}, with status
\* pending whatever status the caller passed and createdAt = now; when no
\* warden or HOD matches, the request is stored with that assignment null.
C15_SaveStoresOnePending == [][C15_StepOk]_vars

\* a home visit of a department without HOD record and without block has
\* been stored for a requester code that had to be sanitized
C15_Witness ==
    /\ lastOp = "save"
    /\ lastCall.key # NoId
    /\ lastCall.requestData.type = "home_visit"
    /\ nested["E_2"][lastCall.key].assignedHod = None
    /\ nested["E_2"][lastCall.key].assignedWarden = None
    /\ nested["E_2"][lastCall.key].status = "pending"

\* the positions of the warden records of a block
WardensOfBlock(block) == {j \in 1 .. Len(wardens) : wardens[j].block = block}

\* C16: getAssignedWardenByBlock(b) returns the first warden record in
\* iteration order whose block equals b exactly, and null when no record
\* has that block, when there are no warden records or when the read fails.
C16_WardenOfBlock ==
    resolved.fn = "warden" =>
       LET b == resolved.input
           of == WardensOfBlock(b)
       IN  IF resolved.readOk /\ of # {}
           THEN \E j \in of :
                   /\ \A i \in of : j <= i
                   /\ resolved.out.found
                   /\ resolved.out.username = wardens[j].username
                   /\ resolved.out.block = b
           ELSE ~ resolved.out.found

\* the block has warden records of two different wardens and the call has
\* returned one
C16_Witness ==
    /\ resolved.fn = "warden"
    /\ resolved.readOk
    /\ Cardinality(WardensOfBlock(resolved.input)) > 1
    /\ resolved.out.found
    /\ \E i, j \in WardensOfBlock(resolved.input) :
          wardens[i].username # wardens[j].username

\* C17: getAssignedHodByDepartment(d) returns the HOD stored under the id
\* the static table gives for d in upper case, and null when d is not in
\* the table, when no HOD record is under that id or when the read fails;
\* departments the table maps to one id get the same HOD.
C17_HodOfDepartment ==
    resolved.fn = "hod" =>
       LET id == departmentToHodMapping(toUpperCase(resolved.input))
       IN  /\ IF resolved.readOk /\ id # None /\ id \in DOMAIN hods
              THEN /\ resolved.out.found
                   /\ resolved.out.username = hods[id].username
              ELSE ~ resolved.out.found
           /\ \A d \in ResolverDepartments :
                 departmentToHodMapping(toUpperCase(d)) = id
                    => AssignedHod(hods, d, resolved.readOk).found
                          = resolved.out.found
                       /\ (resolved.out.found
                             => AssignedHod(hods, d, resolved.readOk).username
                                   = resolved.out.username)

\* a department written in lower case has got the HOD that a different
\* department of the same id gets
C17_Witness ==
    /\ resolved.fn = "hod"
    /\ resolved.input = "it"
    /\ resolved.out.found
    /\ resolved.out.username = hods["HOD006"].username
    /\ resolved.out.username = AssignedHod(hods, "Cse", TRUE).username

\* the time a request has left is more than nothing and at most 24 hours
LeftWithinOneDay(r, t) ==
    /\ r.createdAt # NoTime
    /\ 0 < (r.createdAt + ThreeDays) - t
    /\ (r.createdAt + ThreeDays) - t <= Day

\* the lists of requests the dashboards hold or fetch
RequestLists ==
    {fetchAllPassRequests(flat, nested, now)}
        \cup {local[s] : s \in Sessions}
        \cup {studentReqs[e] : e \in DOMAIN studentReqs}

\* C18: isExpiringWithin24Hours(createdAt) is true exactly when
\* 0 < (createdAt + 3 days) - now <= 24 hours, and false without createdAt;
\* filterUrgentPasses returns exactly the requests of its list for which it
\* is true, whatever their status, in the list's order and unchanged.
C18_UrgentWithin24Hours ==
    /\ \A createdAt \in 0 .. MaxTime :
          isExpiringWithin24Hours(createdAt, now)
             <=> (0 < (createdAt + ThreeDays) - now
                    /\ (createdAt + ThreeDays) - now <= Day)
    /\ ~ isExpiringWithin24Hours(NoTime, now)
    /\ \A list \in RequestLists :
          filterUrgentPasses(list, now)
             = SelectSeq(list, LAMBDA r : LeftWithinOneDay(r, now))

\* a list holds a granted request with at most 24 hours left and a request
\* with nothing left, and filterUrgentPasses returns the first only
C18_Witness ==
    \E list \in RequestLists :
       /\ \E j \in 1 .. Len(list) :
             list[j].status = "warden_approved" /\ LeftWithinOneDay(list[j], now)
       /\ \E j \in 1 .. Len(list) :
             list[j].createdAt # NoTime /\ ~ LeftWithinOneDay(list[j], now)
       /\ Len(filterUrgentPasses(list, now)) = 1
       /\ Len(list) > 1

\* the requests of a store that are within their 3 days are at the same
\* path with the same fields in another store
KeepsUnexpired(f, n, st, t) ==
    \A i \in Ids :
       /\ (IsRequest(f[i]) /\ ~ PastThreeDays(f[i], t)) => st.flat[i] = f[i]
       /\ \A k \in UserKeys :
             (IsRequest(n[k][i]) /\ ~ PastThreeDays(n[k][i], t))
                => st.nested[k][i] = n[k][i]

\* C19: a second run of deleteExpiredPassRequests or of
\* cleanupOldPassRequests at the same instant, on the store the first run
\* left with every remove succeeding, deletes nothing further; a run,
\* whichever removes fail, leaves every request with now - createdAt at
\* most 3 days in the store with all fields unchanged.
C19_SweepsIdempotent ==
    LET d1 == deleteExpiredPassRequests(flat, nested, now, {})
        d2 == deleteExpiredPassRequests(d1.flat, d1.nested, now, {})
        c1 == cleanupOldPassRequests(flat, nested, now, {})
        c2 == cleanupOldPassRequests(c1.flat, c1.nested, now, {})
    IN  /\ d2 = d1
        /\ c2 = c1
        /\ \A fail \in SUBSET ExpiredIds(flat, nested, now) :
              /\ KeepsUnexpired(flat, nested,
                    deleteExpiredPassRequests(flat, nested, now, fail), now)
              /\ KeepsUnexpired(flat, nested,
                    cleanupOldPassRequests(flat, nested, now, fail), now)

\* request i is in the store, in either layout, past its 3 days
ExpiredStored(i) ==
    \/ IsRequest(flat[i]) /\ PastThreeDays(flat[i], now)
    \/ \E k \in UserKeys : IsRequest(nested[k][i]) /\ PastThreeDays(nested[k][i], now)

----------------------------------------------------------------------------
(* Properties of the handlers' error paths and of concurrent sessions *)

\* the positions of a list that hold an entry with the id
PositionsOf(list, id) == {j \in 1 .. Len(list) : list[j].id = id}

C21_StepOk ==
    lastOp' = "submitFail" =>
       \A e \in DOMAIN studentReqs, ty \in Types :
          (inFlight[ty].tempId # NoId /\ inFlight'[ty].tempId = NoId) =>
             /\ PositionsOf(studentReqs'[e], inFlight[ty].tempId) = {}
             /\ studentReqs'[e]
                   = SelectSeq(studentReqs[e],
                               LAMBDA r : r.id # inFlight[ty].tempId)
             /\ \A j \in 1 .. Len(inFlight[ty].before) :
                   (\E i \in 1 .. Len(studentReqs[e]) :
                        studentReqs[e][i] = inFlight[ty].before[j])
                      => \E i \in 1 .. Len(studentReqs'[e]) :
                            studentReqs'[e][i] = inFlight[ty].before[j]

\* C21: when savePassRequest fails during handleOutingSubmit or
\* handleHomeVisitSubmit, the catch block leaves no entry with the
\* temporary id in the student's list and removes nothing else: every
\* entry the list held before the submission, and still held when the call
\* failed, is in it afterwards.  (A snapshot that arrives while the call is
\* pending replaces the list on its own.)
C21_FailedSubmitRolledBack == [][C21_StepOk]_vars

\* a submission has failed while the other form's submission was pending
\* and the list held a stored request
C21_Witness ==
    /\ lastOp = "submitFail"
    /\ \E ty \in Types : inFlight[ty].tempId # NoId
    /\ \E e \in DOMAIN studentReqs :
          /\ \E j \in 1 .. Len(studentReqs[e]) : IsTemp(studentReqs[e][j])
          /\ \E j \in 1 .. Len(studentReqs[e]) : ~ IsTemp(studentReqs[e][j])


----------------------------------------------------------------------------
(* Concurrent approver sessions *)

\* the row of a session's local list a single Approve / Decline can act on
ActionableRow(s, j) ==
    /\ j \in 1 .. Len(local[s])
    /\ FindIndex(local[s], local[s][j].id) = j
    /\ ~ InvalidPathSegment(local[s][j].emp_code)
    /\ IF s \in HodSessions THEN HodActionable(local[s][j])
                            ELSE WardenActionable(local[s][j])

\* the decisions a session's buttons write
Decisions(s) ==
    IF s \in HodSessions THEN {"hod_approved", "declined"}
                         ELSE {"warden_approved", "declined"}

\* updateRequestStatus of the session's dashboard, run in the current state
SingleWrite(s, id, status) ==
    IF s \in HodSessions
    THEN HodUpdateRequestStatus(flat, nested, local[s], SessionUser(s), id, status)
    ELSE WardenUpdateRequestStatus(flat, nested, local[s], SessionUser(s), id,
                                   status, now)

\* the record at the path updateRequestStatus writes to
WrittenNode(f, n, r) ==
    IF r.emp_code # "" /\ n[r.emp_code][r.id].exists THEN n[r.emp_code][r.id]
                                                     ELSE f[r.id]

\* the write of a session that holds a request in an actionable state is
\* not refused, whatever status is stored meanwhile, and the record it
\* addressed carries the status just written
C22_WriteNotRefused ==
    \A s \in Sessions : \A j \in 1 .. Len(local[s]) : \A status \in Decisions(s) :
        ActionableRow(s, j) =>
            LET r == local[s][j]
                st == SingleWrite(s, r.id, status)
            IN  /\ st.ok
                /\ WrittenNode(st.flat, st.nested, r).exists
                /\ WrittenNode(st.flat, st.nested, r).status = status

\* C22: approval writes are last-writer-wins. When sessions that loaded the
\* same request in an actionable state each write a decision, no write is
\* rejected and the stored status afterwards, as fetchAllPassRequests reads
\* it, is the one written last.
C22_LastWriterWins ==
    \A s \in Sessions : \A j \in 1 .. Len(local[s]) : \A status \in Decisions(s) :
        ActionableRow(s, j) =>
            LET r == local[s][j]
                st == SingleWrite(s, r.id, status)
                all == fetchAllPassRequests(st.flat, st.nested, now)
            IN  /\ st.ok
                /\ \A q \in 1 .. Len(all) :
                      all[q].id = r.id => all[q].status = status


----------------------------------------------------------------------------
(* Properties of login *)

\* the record that wins for a pair on the tables a call of login read:
\* students first, then hod, then warden
FirstOfTables(read, username, password) ==
    LET s == FirstMatch(read.students, "students", username, password)
        h == FirstMatch(read.hod, "hod", username, password)
        w == FirstMatch(read.warden, "warden", username, password)
    IN  IF s # NoRecord THEN s ELSE IF h # NoRecord THEN h ELSE w

\* C23: login(username, password) returns true and sets the user only if
\* the pair matches a record of the students table (emp_code and birthday),
\* of the hod table (username, password, role hod) or of the warden table
\* (username, password, role warden), tried in that order with the first
\* match winning: the user in memory and the persisted user are then the
\* object built from that record.  Otherwise it returns false and leaves
\* the user in memory and the persisted user unchanged.
C23_StepOk ==
    lastOp' = "login" =>
        LET c == lastLogin'
            won == FirstOfTables(c.read, c.username, c.password)
        IN  /\ c.result =>
                  /\ won # NoRecord
                  /\ authUser' = userObj(won)
                  /\ ssec_user' = userObj(won)
            /\ won = NoRecord => ~ c.result
            /\ ~ c.result => authUser' = authUser /\ ssec_user' = ssec_user

C23_LoginFirstMatchOrUnchanged == [][C23_StepOk]_vars

\* a login succeeded on a pair that matches a student and a hod record
C23_Witness ==
    /\ lastOp = "login"
    /\ lastLogin.result
    /\ FirstMatch(lastLogin.read.students, "students",
                  lastLogin.username, lastLogin.password) # NoRecord
    /\ FirstMatch(lastLogin.read.hod, "hod",
                  lastLogin.username, lastLogin.password) # NoRecord
    /\ authUser.role = "student"

\* a login failed while a user was logged in
C23_WitnessFailed ==
    /\ lastOp = "login"
    /\ ~ lastLogin.result
    /\ authUser # NoUser
    /\ ssec_user = authUser


----------------------------------------------------------------------------
(* Properties of single approvals *)

SingleOps == {"hodApprove", "hodDecline", "wardenApprove", "wardenDecline"}

\* new is old but for the status and the approver stamps
OnlyDecisionFields(old, new) ==
    new = [old EXCEPT !.status = new.status,
                      !.hodApprovedBy = new.hodApprovedBy,
                      !.wardenApprovedBy = new.wardenApprovedBy,
                      !.grantedAt = new.grantedAt,
                      !.expiresAt = new.expiresAt]

\* the ids of the requests a step changes, at either path
ChangedIds ==
    {i \in Ids : \/ flat'[i] # flat[i]
                 \/ \E k \in UserKeys : nested'[k][i] # nested[k][i]}

\* the HOD's fallback copies the legacy record it has just updated to the
\* requester's path
MirrorOf(i, old, new) ==
    ~ old.exists /\ flat[i].exists /\ new = flat'[i]

\* C24: a single approve or decline by a HOD or a warden changes only the
\* status and the approver stamp (hodApprovedBy, or wardenApprovedBy with
\* grantedAt and expiresAt) of the target request: every other field of the
\* request stays at each path where it is stored, a copy the action makes
\* of the request carries the same fields, and no other request changes.
C24_StepOk ==
    lastOp' \in SingleOps =>
        /\ Cardinality(ChangedIds) <= 1
        /\ \A i \in Ids :
              /\ OnlyDecisionFields(flat[i], flat'[i])
              /\ \A k \in UserKeys :
                    \/ OnlyDecisionFields(nested[k][i], nested'[k][i])
                    \/ MirrorOf(i, nested[k][i], nested'[k][i])

C24_SingleActionFrame == [][C24_StepOk]_vars


----------------------------------------------------------------------------
(* Properties of approver stamps *)

----------------------------------------------------------------------------
(* Properties of the home visit workflow *)

\* a stored home visit that savePassRequest wrote for handleHomeVisitSubmit
\* and a HOD approved
SubmittedHomeVisitHodApproved(r) ==
    /\ IsRequest(r)
    /\ ~ r.hasUsername
    /\ r.type = "home_visit"
    /\ r.status = "hod_approved"
    /\ r.hodApprovedBy # None

\* C26: a home visit submitted through handleHomeVisitSubmit and approved by
\* its HOD is in the queue of some warden, whose dashboard offers the
\* approval that takes it to warden_approved.
C26_HomeVisitReachesWarden ==
    \A r \in StoredNodes(flat, nested) :
        SubmittedHomeVisitHodApproved(r) =>
            \E w \in WardenUsers : WardenQueueFilter(r, w) /\ WardenActionable(r)


----------------------------------------------------------------------------
(* Properties of writes to removed requests *)

\* the store holds a record for the id, at the flat or a requester's path
HasRecord(f, n, i) ==
    f[i].exists \/ \E k \in UserKeys : n[k][i].exists

DashboardOps ==
    SingleOps \cup {"hodApproveAll", "hodDeclineAll",
                    "wardenApproveAll", "wardenDeclineAll"}

\* C27: once a request has been removed from the store, no approve or
\* decline, single or bulk, of a HOD or warden session that still holds it
\* in its local list creates a record for that id, in either layout.
C27_StepOk ==
    lastOp' \in DashboardOps =>
        \A i \in Ids :
            ~ HasRecord(flat, nested, i) => ~ HasRecord(flat', nested', i)

C27_NoWriteAfterRemoval == [][C27_StepOk]_vars


----------------------------------------------------------------------------
(* Properties of the bulk handlers' local lists *)

\* the rows of the ids worked on show the status fetchAllPassRequests
\* returns for the id from the store st, wherever it returns the id
LocalMatchesStore(st, ids, t) ==
    LET all == fetchAllPassRequests(st.flat, st.nested, t)
    IN  \A j \in 1 .. Len(st.local) : \A q \in 1 .. Len(all) :
            (st.local[j].id \in ids /\ all[q].id = st.local[j].id)
                => all[q].status = st.local[j].status

\* C28: after Approve All / Decline All of a HOD or a warden has returned,
\* with every write done or with one failed partway, each request the
\* handler worked on has in the session's local list the status of its
\* stored record as the read path returns it.
C28_BulkLocalMatchesStore ==
    /\ \A s \in HodSessions, status \in {"hod_approved", "declined"} :
          LocalMatchesStore(
              HodHandleAll(flat, nested, local[s], SessionUser(s), status),
              PendingIds(local[s]), now)
    /\ \A s \in WardenSessions, ty \in Types,
          status \in {"warden_approved", "declined"} :
          LET reqs == WardenPending(local[s], ty)
          IN  LocalMatchesStore(
                  WardenHandleAll(flat, nested, local[s], SessionUser(s), ty,
                                  status, now),
                  {reqs[j].id : j \in 1 .. Len(reqs)}, now)


----------------------------------------------------------------------------
(* Properties of the two copies of a request *)

\* C29: after every approve or decline of a HOD or a warden, single or
\* bulk, a request id stored both at passRequests/{id} and at
\* passRequests/{requester}/{id} has the same status in the two copies.
C29_StepOk ==
    lastOp' \in DashboardOps =>
        \A i \in Ids, k \in UserKeys :
            (flat'[i].exists /\ nested'[k][i].exists)
                => flat'[i].status = nested'[k][i].status

C29_CopiesAgree == [][C29_StepOk]_vars


----------------------------------------------------------------------------
(* Properties of the duplicate check on failed writes *)

\* C30: whenever savePassRequest rejects a call as a duplicate, the same
\* client wrote a request of the same signature to the store less than
\* DUPLICATE_PREVENTION_WINDOW before; a call whose write failed does not
\* block the retry that follows it.
C30_StepOk ==
    (lastOp' = "save" /\ lastCall'.rejected) =>
        LET sig == lastCall'.signature
        IN  /\ sig \in DOMAIN lastWritten
            /\ DateNow - lastWritten[sig] < DUPLICATE_PREVENTION_WINDOW

C30_DuplicateOnlyAfterWrite == [][C30_StepOk]_vars


----------------------------------------------------------------------------
(* Properties of a sweep in which a remove fails *)

\* the store st that a run with the removes of fail failing leaves, against
\* the store clean that the same run leaves when every remove succeeds:
\* the requests of fail are where they were, with their fields, and every
\* other path is as in clean
FailuresIsolated(f, n, st, clean, fail) ==
    \A i \in Ids :
       /\ st.flat[i] = IF i \in fail THEN f[i] ELSE clean.flat[i]
       /\ \A k \in UserKeys :
             st.nested[k][i] = IF i \in fail THEN n[k][i]
                                             ELSE clean.nested[k][i]

\* the store holds requests in one layout only
OneLayout(f, n) ==
    \/ \A i \in Ids : ~ f[i].exists
    \/ \A i \in Ids, k \in UserKeys : ~ n[k][i].exists

\* no request past its 3 days is left in st but those of fail
OnlyFailedLeft(st, t, fail) ==
    \A i \in Ids \ fail :
       /\ ~ (IsRequest(st.flat[i]) /\ PastThreeDays(st.flat[i], t))
       /\ \A k \in UserKeys :
             ~ (IsRequest(st.nested[k][i]) /\ PastThreeDays(st.nested[k][i], t))

\* C31: a run of deleteExpiredPassRequests or of cleanupOldPassRequests in
\* which removes fail returns, removes every request it removes when no
\* remove fails except the failed ones, and leaves the failed ones in the
\* store as they were; in a store of one layout it leaves no request past
\* its 3 days but the failed ones.
C31_SweepSurvivesFailedRemove ==
    \A fail \in SUBSET ExpiredIds(flat, nested, now) :
       LET d == deleteExpiredPassRequests(flat, nested, now, fail)
           c == cleanupOldPassRequests(flat, nested, now, fail)
       IN  /\ FailuresIsolated(flat, nested, d,
                 deleteExpiredPassRequests(flat, nested, now, {}), fail)
           /\ FailuresIsolated(flat, nested, c,
                 cleanupOldPassRequests(flat, nested, now, {}), fail)
           /\ OneLayout(flat, nested) =>
                 /\ OnlyFailedLeft(d, now, fail)
                 /\ OnlyFailedLeft(c, now, fail)

\* two requests are past their 3 days in the layout the sweep walks; with
\* the remove of the first failing, either sweep leaves the first and
\* removes the second
C31_Witness ==
    \E k \in UserKeys :
       /\ IsRequest(nested[k][1]) /\ PastThreeDays(nested[k][1], now)
       /\ IsRequest(nested[k][2]) /\ PastThreeDays(nested[k][2], now)
       /\ LET d == deleteExpiredPassRequests(flat, nested, now, {1})
              c == cleanupOldPassRequests(flat, nested, now, {1})
          IN  /\ d.nested[k][1] = nested[k][1] /\ ~ d.nested[k][2].exists
              /\ c.nested[k][1] = nested[k][1] /\ ~ c.nested[k][2].exists


----------------------------------------------------------------------------
(* Properties of the role a login gives *)

\* the table whose find call gave the record a call of login found
TableOf(read, username, password) ==
    IF FirstMatch(read.students, "students", username, password) # NoRecord
    THEN "students"
    ELSE IF FirstMatch(read.hod, "hod", username, password) # NoRecord
    THEN "hod"
    ELSE IF FirstMatch(read.warden, "warden", username, password) # NoRecord
    THEN "warden"
    ELSE None

\* C32: a login that found its record in the students table gives the
\* role student; a login gives the role hod only when it found the record
\* in the hod table and the role warden only when it found it in the warden
\* table.
C32_StepOk ==
    (lastOp' = "login" /\ lastLogin'.result) =>
        LET c == lastLogin'
            table == TableOf(c.read, c.username, c.password)
        IN  /\ table = "students" => authUser'.role = "student"
            /\ authUser'.role = "hod" => table = "hod"
            /\ authUser'.role = "warden" => table = "warden"

C32_RoleFollowsTable == [][C32_StepOk]_vars


----------------------------------------------------------------------------
(* Properties of the user in memory and the persisted user *)

\* const isAuthenticated = !!user
isAuthenticated == authUser # NoUser

AuthOps == {"login", "logout", "appMount"}

\* C33: after every login, logout and mount of AuthProvider the user in
\* memory is the user persisted under ssec_user: a successful login has set
\* both to the object it built, a mount has restored the persisted object,
\* a logout has left both absent; isAuthenticated is true exactly when the
\* user is set.
C33_StepOk ==
    lastOp' \in AuthOps =>
        /\ authUser' = ssec_user'
        /\ (lastOp' = "login" /\ lastLogin'.result) =>
              ssec_user' = userObj(FirstOfTables(lastLogin'.read,
                              lastLogin'.username, lastLogin'.password))
        /\ lastOp' = "appMount" => authUser' = ssec_user
        /\ lastOp' = "logout" => authUser' = NoUser /\ ssec_user' = NoUser
        /\ isAuthenticated' <=> ssec_user' # NoUser

C33_UserMatchesPersisted == [][C33_StepOk]_vars

\* a mount has restored the user a login persisted before the app was
\* closed
C33_Witness ==
    /\ lastOp = "appMount"
    /\ isAuthenticated
    /\ authUser = ssec_user
    /\ lastLogin.result
    /\ authUser = userObj(FirstOfTables(lastLogin.read, lastLogin.username,
                                        lastLogin.password))

\* a logout has cleared a user who was logged in
C33_WitnessLogout ==
    /\ lastOp = "logout"
    /\ lastLogin.result
    /\ ~ isAuthenticated
    /\ ssec_user = NoUser


----------------------------------------------------------------------------
(* The two sweeps against each other *)

\* the paths of a store at which another store has no node any more
RemovedPaths(f, n, st) ==
    {<<"passRequests", i>> : i \in {j \in Ids : f[j].exists /\ ~ st.flat[j].exists}}
        \cup UNION {{<<k, i>> : i \in {j \in Ids : n[k][j].exists
                                              /\ ~ st.nested[k][j].exists}} :
                    k \in UserKeys}

\* C34: on every store and at every time deleteExpiredPassRequests and
\* cleanupOldPassRequests remove the same requests and leave the same
\* store, whichever removes fail.
C34_SweepsRemoveTheSame ==
    \A fail \in SUBSET ExpiredIds(flat, nested, now) :
       LET d == deleteExpiredPassRequests(flat, nested, now, fail)
           c == cleanupOldPassRequests(flat, nested, now, fail)
       IN  /\ RemovedPaths(flat, nested, d) = RemovedPaths(flat, nested, c)
           /\ d = c

\* the store holds a request past its 3 days, a request within them and a
\* node without createdAt; both sweeps remove the first only
C34_Witness ==
    /\ \E r \in StoredNodes(flat, nested) : IsRequest(r) /\ ~ PastThreeDays(r, now)
    /\ \E r \in StoredNodes(flat, nested) : r.createdAt = NoTime
    /\ RemovedPaths(flat, nested,
          deleteExpiredPassRequests(flat, nested, now, {})) # {}
    /\ RemovedPaths(flat, nested,
          cleanupOldPassRequests(flat, nested, now, {})) # {}


----------------------------------------------------------------------------
(* Properties of the login page *)

PageOps == {"onSubmit", "onSubmitAwaited"}

\* C35: a submit of the login page shows the toast Login Successful and
\* leaves the route it was on only when login has resolved to true; when
\* login resolves to false it shows Login Failed and the route stays.
C35_StepOk ==
    lastOp' \in PageOps =>
        /\ (toast' = "Login Successful" \/ route' # route) => lastLogin'.result
        /\ ~ lastLogin'.result =>
              toast' = "Login Failed" /\ route' = route

C35_SuccessOnlyWhenLoggedIn == [][C35_StepOk]_vars

\* the version of the page that awaits login keeps to C35
C35_AwaitedStepOk ==
    lastOp' = "onSubmitAwaited" =>
        /\ (toast' = "Login Successful" \/ route' # route) => lastLogin'.result
        /\ ~ lastLogin'.result =>
              toast' = "Login Failed" /\ route' = route

C35_AwaitedVersionHolds == [][C35_AwaitedStepOk]_vars


----------------------------------------------------------------------------
(* Properties of the ApprovalWorkflow card *)

\* the pass type, mode and status for which the claim has the buttons, with
\* the status Approve is to give
OfferedFor ==
    { [passType |-> "outing", mode |-> "warden", status |-> "pending",
       next |-> "warden_approved"],
      [passType |-> "home_visit", mode |-> "hod", status |-> "pending",
       next |-> "hod_approved"],
      [passType |-> "home_visit", mode |-> "warden", status |-> "hod_approved",
       next |-> "warden_approved"] }

\* C36: for every pass type, mode and status, canApprove holds exactly for
\* (outing, warden, pending), (home_visit, hod, pending) and (home_visit,
\* warden, hod_approved), and then getNextAction is not null and is
\* warden_approved, hod_approved and warden_approved; a click on Approve
\* hands that status to onStatusChange.
C36_StepOk ==
    /\ \A pt \in Types, m \in UserModes, st \in ApprovalStatuses :
          LET hit == {o \in OfferedFor :
                         o.passType = pt /\ o.mode = m /\ o.status = st}
          IN  /\ canApprove(pt, m, st) <=> hit # {}
              /\ \A o \in hit :
                    /\ getNextAction(pt, m, st) # None
                    /\ getNextAction(pt, m, st) = o.next
    /\ lastOp' = "cardApprove" =>
          \E o \in OfferedFor :
             /\ o.passType = passType /\ o.mode = mode
             /\ o.status = currentStatus
             /\ currentStatus' = o.next

C36_ButtonsFollowStateMachine == [][C36_StepOk]_vars

\* the warden has approved a home visit that was hod_approved
C36_Witness ==
    /\ lastOp = "cardApprove"
    /\ passType = "home_visit"
    /\ mode = "warden"
    /\ currentStatus = "warden_approved"
    /\ smsToast = "SMS Sent"


----------------------------------------------------------------------------
(* Properties of the hosteller test of login *)

\* the spellings of the position login takes for a hosteller
HostellerPositions == {"HOSTELLER", "hosteller"}

\* the place in the students list of the record a call of login found
FoundAt(list, username, password) ==
    CHOOSE j \in 1 .. Len(list) :
        /\ Matches("students", list[j], username, password)
        /\ \A q \in 1 .. (j - 1) :
              ~ Matches("students", list[q], username, password)

\* C37: a login that finds its record in the students table finds a
\* student whose node has the position HOSTELLER (in the spelling HOSTELLER
\* or hosteller) or no position; whatever the credentials, no student node
\* with another position is the record a login succeeds on.
C37_StepOk ==
    (lastOp' = "login" /\ lastLogin'.result) =>
        LET c == lastLogin'
        IN  TableOf(c.read, c.username, c.password) = "students" =>
               LET node == accounts.students[FoundAt(c.read.students,
                                                      c.username, c.password)]
               IN  /\ authUser'.username = Or(node.emp_code,
                                               Or(node.username, node.id))
                   /\ node.position \in HostellerPositions \cup {None}

C37_WitnessNoPosition ==
    /\ lastOp = "login"
    /\ lastLogin.result
    /\ authUser.role = "student"
    /\ \E j \in 1 .. Len(accounts.students) :
          accounts.students[j].position = None


----------------------------------------------------------------------------
(* The request-age label against the expiry filter *)

\* C38: at every instant isExpired(createdAt) equals
\* getTimeUntilExpiry(createdAt).isExpired for the createdAt of every
\* stored node, and no request of a list that filterOutExpiredRequests has
\* produced at that instant has the request-age label Expired.
C38_LabelAgreesWithFilter ==
    /\ \A r \in StoredNodes(flat, nested) :
          isExpired(r.createdAt, now)
             = getTimeUntilExpiry(r.createdAt, now).isExpired
    /\ \A r \in SeqToSet(fetchAllPassRequests(flat, nested, now)) :
          ~ getTimeUntilExpiry(r.createdAt, now).isExpired

====
